---- MODULE Spec2Model ----
(***************************************************************************)
(* Model of calamari_common/remote/mon_remote.py: the MsgGenerator event   *)
(* bus (heartbeat greenlet, job greenlets, fan-out), the MonRemote facade  *)
(* (listen, run_job, run_job_sync) and the rados_commands batch runner.    *)
(*                                                                         *)
(* Scheduling is gevent's: one greenlet runs at a time and yields only at  *)
(* I/O, sleep or queue waits, so each action below is the code between two *)
(* such suspension points.                                                 *)
(***************************************************************************)
EXTENDS Integers, Sequences, FiniteSets, TLC

\* ---------------------------------------------------------------- bounds
MaxJobs == 2         \* job ids drawn by MsgGenerator.run_job
MaxSync == 2         \* calls of MonRemote.run_job_sync
MaxRounds == 1       \* heartbeat rounds
MaxReports == 1      \* calls of MsgGenerator.running_jobs
MaxSubscribed == 1   \* largest value self.subscribed may take
MaxRegs == 2         \* explicit calls of register
MaxBatch == 2        \* commands in one rados_commands call
MaxEpoch == 2        \* epoch up to which the cluster advances on its own
MaxOsds == 2         \* entries of data['osds'] in an osd map
MaxListens == 2      \* listen calls one facade begins
MaxPgs == 2          \* records of a 'pg dump' reply

\* ------------------------------------------------------------ input sets
Facades == {"r1", "r2"}
LocalFqdn == "local"
Fqdns == {LocalFqdn, "other"}
Fsids == {"fsidA"}
SubmitCmds == {"ceph.cluster_stats", "selftest_exception"}
SubmitArgs == {"a1"}
SyncCmds == {"ceph.get_cluster_object", "ceph.rados_commands",
             "ceph.ceph_command", "ceph.cluster_stats", "selftest_block"}
SyncArgs == {"a1", "a2"}
HandlerSets == {{"JOB", "HEARTBEAT", "SERVER_HEARTBEAT", "RUNNING_JOBS"}}

BatchPrefixes == {"osd setcrushmap", "osd pool set"}
Outbufs == {"", "1", "2", "{"}
ErrTexts == {"EINVAL"}

\* the cmd arguments given to run_job directly; "selftest_block" is a name
\* it does not know
RunCmds == {"ceph.get_cluster_object", "ceph.ceph_command", "ceph.rbd_command",
            "ceph.cluster_stats", "ceph.pool_stats", "selftest_block"}
\* JSON object texts, each the sequence of its key/value pairs as written
RawTexts == {<< <<"a", 1>>, <<"b", 2>> >>,
             << <<"b", 2>>, <<"a", 1>> >>,
             << <<"a", 1>>, <<"b", 1>> >>}
\* pg ids, as the characters of the string
PgIds == {<<"1", ".", "0">>, <<"1", ".", "1">>, <<"1", "2", ".", "0">>}
PgStates == {"active+clean", "down"}
Actings == {<<1>>, <<1, 2>>, <<2, 2>>}
\* the pg records a dump is made of: each pg id in each state, the acting
\* lists spread over them
PgRecords ==
  {[pgid |-> <<"1", ".", "0">>, state |-> "active+clean", acting |-> <<1>>],
   [pgid |-> <<"1", ".", "0">>, state |-> "down", acting |-> <<2, 2>>],
   [pgid |-> <<"1", ".", "1">>, state |-> "active+clean", acting |-> <<1, 2>>],
   [pgid |-> <<"1", ".", "1">>, state |-> "down", acting |-> <<1>>],
   [pgid |-> <<"1", "2", ".", "0">>, state |-> "active+clean", acting |-> <<2, 2>>],
   [pgid |-> <<"1", "2", ".", "0">>, state |-> "down", acting |-> <<1, 2>>]}
OsdIds == 0..MaxOsds
\* the admin sockets glob may find, each given by the three groups its file
\* name parses to, and the ways a socket and a cluster can answer
Sockets == {[cluster |-> "ceph", type |-> "mon", id |-> "a"],
            [cluster |-> "ceph", type |-> "osd", id |-> "0"],
            [cluster |-> "other", type |-> "mon", id |-> "b"]}
SocketReplies == {"ok", "rados.Error", "ValueError"}
ClusterReplies == {"ok", "connect", "rados.Error", "TypeError"}

\* ------------------------------------------------------------- constants
HEARTBEAT_PERIOD == 10
HEARTBEAT == "HEARTBEAT"
JOB == "JOB"
SERVER_HEARTBEAT == "SERVER_HEARTBEAT"
RUNNING_JOBS == "RUNNING_JOBS"

SYNC_TYPES == {"mon_status", "quorum_status", "mon_map", "osd_map",
               "mds_map", "pg_summary", "health", "config"}
\* the sync_type arguments tried: the known ones and one that is not
SyncTypeArgs == SYNC_TYPES \cup {"crush_map"}

\* the command names run_job dispatches on
KnownCmds == {"ceph.get_cluster_object", "ceph.rados_commands",
              "ceph.ceph_command", "ceph.rbd_command",
              "ceph.cluster_stats", "ceph.pool_stats"}

VARIABLES
  generator,    \* the module global _generator is not None
  started,      \* number of times _generator.start() was called
  instances,    \* MsgGenerator._instances, a list of facades
  fgen,         \* facade f's self._generator is not None
  hbpc,         \* position of MsgGenerator._run
  complete,     \* MsgGenerator._complete is set
  rounds,       \* heartbeat rounds begun
  waited,       \* time the current _complete.wait(HEARTBEAT_PERIOD) has lasted
  stoppedIn,    \* history: where _run was when _complete was set ("" before)
  probe,        \* history: what the last get_heartbeats() call met and did
  jobs,         \* keys of MsgGenerator._jobs
  tasks,        \* the live greenlets spawned by MsgGenerator.run_job, by jid
  nuuid,        \* number of uuid4() values drawn so far
  lastExc,      \* history: the exception the run_job(cmd, args) call of the
                \* latest job greenlet to end raised ("" when it returned)
  nreports,     \* calls of running_jobs so far
  inbox,        \* facade f's self._events
  lastEmit,     \* history: the events the latest emitting step passed to _emit
  nemit,        \* history: number of events passed to _emit so far
  constructed,  \* facade f has been constructed
  subscribed,   \* facade f's self.subscribed
  lpc,          \* position of facade f's listen call
  completion,   \* the completion Event handed to f's listen call is set
  handlers,     \* event kinds for which f's listen call was given a callback
  before,       \* history: self.subscribed when f's listen call began
  recording,    \* the callbacks passed to listen keep a record of their calls
  calls,        \* history: for each event f's listen calls took off the
                \* queue, the listen call, the event and the callbacks called
  nlisten,      \* history: number of listen calls f has begun
  leftover,     \* history: f's queue as its latest listen call ended
  returned,     \* history: the job ids MonRemote.run_job returned, in order
  lastCall,     \* history: the latest MonRemote.run_job call: the fqdn given
                \* and the job id returned or "Unavailable" raised
  syncs,        \* history: outcome of each MonRemote.run_job_sync call
  nregs,        \* history: number of explicit register calls made
  commands,     \* rados_commands: the commands argument
  bpc,          \* rados_commands: position of the call
  bi,           \* rados_commands: index of the next command of the loop
  results,      \* rados_commands: the results list
  berr,         \* rados_commands: outs of the command that returned nonzero
  sq,           \* cluster_status: index of its next query
  bvers,        \* cluster_status: the map version read from 'status'
  bres,         \* rados_commands: the dict returned
  braise,       \* rados_commands: the exception the call ended in, or ""
  session,      \* the ClusterHandle of the call: none, open or shutdown
  sessLog,      \* history: every command issued on the session, in order,
                \* with the reply and the cluster's epoch after it
  epoch,        \* the cluster's osd map epoch
  jcall,        \* history: the run_job(cmd, args) call made and the function
                \* it dispatched to ("" when it raised instead)
  fpc,          \* get_cluster_object: position of the call
  ftype,        \* get_cluster_object: the sync_type argument
  fsession,     \* the ClusterHandle of the call: none, open or shutdown
  fLog,         \* history: every query the call issued, in order, with the
                \* epoch it asked for (0: none) and the epoch it reflects
  fraw,         \* the raw reply to the query that fetches the object
  fver,         \* get_cluster_object: version
  fdata,        \* get_cluster_object: data
  fi,           \* get_cluster_object: index of the next entry of data['osds']
  fraise,       \* the exception the call ended in, or ""
  fres,         \* the dict the call returned
  nproc         \* history: subprocesses started (ceph, rbd, crushtool)

genVars == <<generator, started, instances, fgen, hbpc>>
hbVars == <<complete, rounds, waited, stoppedIn, probe>>
jobVars == <<jobs, tasks, nuuid, lastExc>>
emitVars == <<inbox, lastEmit, nemit>>
listenVars == <<subscribed, lpc, completion, handlers, before, recording,
               calls, nlisten, leftover>>
callVars == <<returned, lastCall, syncs, nregs>>
batchVars == <<commands, bpc, bi, results, berr, sq, bvers, bres, braise,
               session, sessLog, epoch>>
fetchVars == <<jcall, fpc, ftype, fsession, fLog, fraw, fver, fdata, fi,
               fraise, fres, nproc>>
vars == <<genVars, hbVars, jobVars, nreports, emitVars, constructed,
          listenVars, callVars, batchVars, fetchVars>>

Range(s) == {s[i] : i \in 1..Len(s)}

\* ----------------------------------------------------------------- events
\* MsgEvent(kind, data); the fields of data are flattened into one record
MsgEvent(kind, jid, success, ret, fun, fun_args, fsids, jids) ==
  [kind |-> kind, jid |-> jid, success |-> success, return |-> ret,
   fun |-> fun, fun_args |-> fun_args, fsids |-> fsids, jids |-> jids]

\* a JOB event that does not say which job it is about
JobEventAnonymous(jid, success, ret, fun, fun_args) ==
  MsgEvent(JOB, 0, success, ret, fun, fun_args, {}, {})

\* the JOB event built by run_job_thread
JobEvent(jid, success, ret, fun, fun_args) ==
  MsgEvent(JOB, jid, success, ret, fun, fun_args, {}, {})
ServerHeartbeatEvent == MsgEvent(SERVER_HEARTBEAT, 0, TRUE, "", "", "", {}, {})
HeartbeatEvent(fsids) == MsgEvent(HEARTBEAT, 0, TRUE, "", "", "", fsids, {})
RunningJobsEvent(jids) == MsgEvent(RUNNING_JOBS, 0, TRUE, "", "", "", {}, jids)

\* traceback.format_exc() of an exception of type exc
FormatExc(exc) == "Traceback: " \o exc
\* what a dispatched call that succeeds returns
ReturnValue(cmd, args) == "result of " \o cmd \o " " \o args

\* run_job: the exception an unknown command name ends in ("" when known);
\* NotImplemented is not callable, so raise NotImplemented(cmd) is a TypeError
RunJobDispatchError(cmd) == IF cmd \in KnownCmds THEN "" ELSE "TypeError"

\* ------------------------------------------------------------ MsgGenerator
\* MsgGenerator.register
Register(insts, f) ==
  IF f \notin Range(insts) THEN Append(insts, f) ELSE insts

\* a fan-out that puts into every registered instance, listening or not
InterestedAlways(f) == TRUE

\* the test _emit makes on each instance: instance.subscribed > 0
Interested(f) == subscribed[f] > 0

\* MsgGenerator._emit: walk _instances, put into those that pass the test
RECURSIVE EmitOver(_, _, _)
EmitOver(insts, q, ev) ==
  IF insts = <<>> THEN q
  ELSE LET f == Head(insts)
           q2 == IF Interested(f)
                 THEN [q EXCEPT ![f] = Append(@, ev)]   \* MonRemote.put
                 ELSE q
       IN EmitOver(Tail(insts), q2, ev)

\* a fan-out that stops after the first registered instance
EmitFirstOnly(q, ev) == EmitOver(SubSeq(instances, 1, 1), q, ev)

Emit(q, ev) == EmitOver(instances, q, ev)

\* the value uuid.uuid4() yields on its n-th call: uuid4 values are taken
\* never to repeat, so they are numbered in the order they are drawn
Uuid4(n) == n + 1

\* an id taken from the size of the job table instead of a fresh uuid
JidFromTableSize == Cardinality(jobs) + 1

\* the id MsgGenerator.run_job gives a new job
NewJid == Uuid4(nuuid)

\* a fqdn test that lets every target through
ReachableAlways(fqdn) == TRUE

\* MsgGenerator.run_job: the target is this agent (else Unavailable is raised)
Reachable(fqdn) == fqdn = LocalFqdn

\* ---------------------------------------------------------- rados_commands
\* Python's None, as a member of a results list
None == 0

\* json.loads accepts the text
IsJson(text) == text \in {"1", "2", "null"}

\* json.loads(text) for a text it accepts
JsonLoads(text) ==
  CASE text = "1" -> 1
    [] text = "2" -> 2
    [] OTHER -> None

\* the entry rados_commands appends to results for a reply outbuf
ResultOf(outbuf) == IF outbuf # "" THEN JsonLoads(outbuf) ELSE None

\* the queries cluster_status makes, in order; the last goes to the mon's
\* admin socket, the others to the session; all are logged in sessLog
StatusQueries == <<"mon_status", "quorum_status", "status", "health",
                   "pg dump", "config show">>

NoVersions == -1
NoResult == [error |-> FALSE, results |-> <<>>, error_status |-> "",
             versions |-> NoVersions, returned |-> FALSE]

\* the sequences of at most n command prefixes
RECURSIVE Batches(_)
Batches(n) ==
  IF n = 0 THEN {<<>>}
  ELSE LET shorter == Batches(n - 1)
       IN shorter \cup {Append(b, p) : b \in {c \in shorter : Len(c) = n - 1},
                                       p \in BatchPrefixes}

\* ------------------------------------------------------ get_cluster_object
\* the sequences over S of length at most n
RECURSIVE SeqsUpTo(_, _)
SeqsUpTo(S, n) ==
  IF n = 0 THEN {<<>>}
  ELSE LET shorter == SeqsUpTo(S, n - 1)
       IN shorter \cup {Append(q, x) : q \in {c \in shorter : Len(c) = n - 1},
                                       x \in S}

\* the 'pg dump' replies and the lists data['osds'] can be
PgLists == SeqsUpTo(PgRecords, MaxPgs)
OsdLists == {l \in SeqsUpTo(OsdIds, MaxOsds) :
               \A i, j \in DOMAIN l : i # j => l[i] # l[j]}

\* json.loads of an object text: a dict, equal to another when it holds the
\* same pairs whatever the order they were written in
JsonObject(raw) == {raw[i] : i \in DOMAIN raw}

\* the text of a 'pg dump' reply whose records are pgs
DumpText(pgs) == [json |-> pgs]

\* msgpack.packb(d)
Packb(d) == [msgpack |-> d]

\* md5(raw): the hex digest of the bytes given, taken to be free of collisions
Md5(raw) == [md5 |-> raw]

\* the table of get_cluster_object: the command that fetches a sync_type
CommandOf(sync_type) ==
  CASE sync_type = "quorum_status" -> "quorum_status"
    [] sync_type = "mon_status" -> "mon_status"
    [] sync_type = "mon_map" -> "mon dump"
    [] sync_type = "osd_map" -> "osd dump"
    [] sync_type = "mds_map" -> "mds dump"
    [] sync_type = "pg_summary" -> "pg dump"
    [] sync_type = "health" -> "health"

\* a dict with no key
EmptyDict == [k \in {} |-> 0]

\* config get fsid, as the daemons of a cluster answer it
FsidOf(cluster) == IF cluster = "ceph" THEN "fsidA" ELSE "fsidB"

\* no get_heartbeats() call has been made
NoProbe == [round |-> 0, present |-> {}, replies |-> EmptyDict,
            quorate |-> {}, statuses |-> EmptyDict, order |-> <<>>,
            services |-> {}, clusters |-> {}, raised |-> "", log |-> <<>>]

\* the rows of the table whose version is d['election_epoch'], and those
\* whose version is d['epoch']
ElectionEpochTypes == {"quorum_status", "mon_status"}
MapEpochTypes == {"mon_map", "osd_map", "mds_map"}

\* json.loads of the reply to the command of an epoch-carrying sync_type: the
\* monitor states carry 'election_epoch', the maps carry 'epoch'
ReplyOf(sync_type, e, osds) ==
  IF sync_type \in ElectionEpochTypes
  THEN [election_epoch |-> e, osds |-> osds]
  ELSE [epoch |-> e, osds |-> osds]

\* a table whose pg_summary entry digests the raw reply
VersionFnOfRaw(sync_type, d, r) ==
  CASE sync_type \in ElectionEpochTypes -> d.election_epoch
    [] sync_type \in MapEpochTypes -> d.epoch
    [] sync_type = "pg_summary" -> Md5(r)
    [] sync_type = "health" -> Md5(r)

\* the third column of the table of get_cluster_object, applied to the
\* decoded data d and the raw reply r
version_fn(sync_type, d, r) ==
  CASE sync_type \in ElectionEpochTypes -> d.election_epoch
    [] sync_type \in MapEpochTypes -> d.epoch
    [] sync_type = "pg_summary" -> Md5(Packb(d))
    [] sync_type = "health" -> Md5(r)

\* try: d[k] += 1 except KeyError: d[k] = 1
Bump(d, k) ==
  IF k \in DOMAIN d THEN [d EXCEPT ![k] = @ + 1]
  ELSE [x \in DOMAIN d \cup {k} |-> IF x = k THEN 1 ELSE d[x]]

\* the same on dd[k1], a dict made on first use
BumpIn(dd, k1, k2) ==
  IF k1 \in DOMAIN dd THEN [dd EXCEPT ![k1] = Bump(@, k2)]
  ELSE [x \in DOMAIN dd \cup {k1} |->
          IF x = k1 THEN Bump(EmptyDict, k2) ELSE dd[x]]

DigitOf(c) ==
  CASE c = "0" -> 0 [] c = "1" -> 1 [] c = "2" -> 2 [] c = "3" -> 3
    [] c = "4" -> 4 [] c = "5" -> 5 [] c = "6" -> 6 [] c = "7" -> 7
    [] c = "8" -> 8 [] c = "9" -> 9

\* pgid.split('.')[0]
RECURSIVE BeforeDot(_)
BeforeDot(chars) ==
  IF chars = <<>> \/ Head(chars) = "." THEN <<>>
  ELSE <<Head(chars)>> \o BeforeDot(Tail(chars))

\* int(digits)
RECURSIVE IntOf(_)
IntOf(digits) ==
  IF digits = <<>> THEN 0
  ELSE IntOf(SubSeq(digits, 1, Len(digits) - 1)) * 10
       + DigitOf(digits[Len(digits)])

PoolOf(pgid) == IntOf(BeforeDot(pgid))

\* pg_summary: the inner loop, for osd in pg['acting']
RECURSIVE ActingFold(_, _, _)
ActingFold(acting, state, osds) ==
  IF acting = <<>> THEN osds
  ELSE ActingFold(Tail(acting), state, BumpIn(osds, Head(acting), state))

\* a pg_summary that counts a pg once for each osd of its acting set
RECURSIVE PgFoldSetwise(_, _)
PgFoldSetwise(pgs, acc) ==
  IF pgs = <<>> THEN acc
  ELSE LET pg == Head(pgs)
           once == CHOOSE l \in SeqsUpTo(Range(pg.acting), Len(pg.acting)) :
                     /\ Range(l) = Range(pg.acting)
                     /\ Len(l) = Cardinality(Range(pg.acting))
       IN PgFoldSetwise(Tail(pgs),
            [by_osd |-> ActingFold(once, pg.state, acc.by_osd),
             by_pool |-> BumpIn(acc.by_pool, PoolOf(pg.pgid), pg.state),
             all |-> Bump(acc.all, pg.state)])

\* pg_summary: the outer loop, for pg in pgs_brief
RECURSIVE PgFold(_, _)
PgFold(pgs, acc) ==
  IF pgs = <<>> THEN acc
  ELSE LET pg == Head(pgs)
       IN PgFold(Tail(pgs),
            [by_osd |-> ActingFold(pg.acting, pg.state, acc.by_osd),
             by_pool |-> BumpIn(acc.by_pool, PoolOf(pg.pgid), pg.state),
             all |-> Bump(acc.all, pg.state)])

NoSummary == [by_osd |-> EmptyDict, by_pool |-> EmptyDict, all |-> EmptyDict]

PgSummarySetwise(pgs_brief) == PgFoldSetwise(pgs_brief, NoSummary)

pg_summary(pgs_brief) == PgFold(pgs_brief, NoSummary)

\* run_job: a dispatch that hands a name it does not know to the CLI fallback
RunJobTargetFallback(cmd) ==
  CASE cmd = "ceph.get_cluster_object" -> "get_cluster_object"
    [] cmd = "ceph.rados_commands" -> "rados_commands"
    [] cmd = "ceph.ceph_command" -> "ceph_command"
    [] cmd = "ceph.rbd_command" -> "rbd_command"
    [] cmd = "ceph.cluster_stats" -> "cluster_stats"
    [] cmd = "ceph.pool_stats" -> "pool_stats"
    [] OTHER -> "ceph_command"

\* run_job: the function cmd is dispatched to, "" when it raises instead
RunJobTarget(cmd) ==
  CASE cmd = "ceph.get_cluster_object" -> "get_cluster_object"
    [] cmd = "ceph.rados_commands" -> "rados_commands"
    [] cmd = "ceph.ceph_command" -> "ceph_command"
    [] cmd = "ceph.rbd_command" -> "rbd_command"
    [] cmd = "ceph.cluster_stats" -> "cluster_stats"
    [] cmd = "ceph.pool_stats" -> "pool_stats"
    [] OTHER -> ""

NoData == [content |-> {}, summary |-> NoSummary, object |-> EmptyDict,
           osds |-> <<>>, tree |-> 0, crush |-> 0, crush_map_text |-> 0,
           osd_metadata |-> <<>>]
NoFetch == [returned |-> FALSE, type |-> "", version |-> 0, data |-> NoData]

\* no run_job call has been made
FetchIdle ==
  /\ jcall = [cmd |-> "", target |-> ""]
  /\ fpc = "idle"
  /\ ftype = ""
  /\ fsession = "none"
  /\ fLog = <<>>
  /\ fraw = <<>>
  /\ fver = 0
  /\ fdata = NoData
  /\ fi = 1
  /\ fraise = ""
  /\ fres = NoFetch
  /\ nproc = 0

\* no rados_commands call has been made
BatchIdle ==
  /\ commands = <<>>
  /\ bpc = "idle"
  /\ bi = 1
  /\ results = <<>>
  /\ berr = ""
  /\ sq = 1
  /\ bvers = NoVersions
  /\ bres = NoResult
  /\ braise = ""
  /\ session = "none"
  /\ sessLog = <<>>
  /\ epoch = 1

\* ------------------------------------------------------------------- Init
Init ==
  /\ generator = FALSE
  /\ started = 0
  /\ instances = <<>>
  /\ fgen = [f \in Facades |-> FALSE]
  /\ hbpc = "none"
  /\ complete = FALSE
  /\ rounds = 0
  /\ waited = 0
  /\ stoppedIn = ""
  /\ probe = NoProbe
  /\ jobs = {}
  /\ tasks = <<>>
  /\ nuuid = 0
  /\ lastExc = ""
  /\ nreports = 0
  /\ inbox = [f \in Facades |-> <<>>]
  /\ lastEmit = <<>>
  /\ nemit = 0
  /\ constructed = [f \in Facades |-> FALSE]
  /\ subscribed = [f \in Facades |-> 0]
  /\ lpc = [f \in Facades |-> "idle"]
  /\ completion = [f \in Facades |-> FALSE]
  /\ handlers = [f \in Facades |-> {}]
  /\ before = [f \in Facades |-> 0]
  /\ recording = FALSE
  /\ calls = [f \in Facades |-> <<>>]
  /\ nlisten = [f \in Facades |-> 0]
  /\ leftover = [f \in Facades |-> <<>>]
  /\ returned = <<>>
  /\ lastCall = [fqdn |-> "", outcome |-> "none", jid |-> 0]
  /\ syncs = <<>>
  /\ nregs = 0
  /\ BatchIdle
  /\ FetchIdle

\* ----------------------------------------------------------------- facade
\* a register that makes and starts a bus of its own for every facade that
\* has none yet, whether or not the process already has one
FacadeRegisterOwnBus(f) ==
  IF fgen[f]
  THEN UNCHANGED genVars
  ELSE /\ generator' = TRUE
       /\ started' = started + 1
       /\ hbpc' = "start"
       /\ fgen' = [fgen EXCEPT ![f] = TRUE]
       /\ instances' = Register(instances, f)

\* MonRemote.register: the effect on the globals and on the facade
\* (called from __init__ and from listen)
FacadeRegister(f) ==
  IF fgen[f]
  THEN UNCHANGED genVars
  ELSE /\ generator' = TRUE
       /\ started' = IF generator THEN started ELSE started + 1
       /\ hbpc' = IF generator THEN hbpc ELSE "start"
       /\ fgen' = [fgen EXCEPT ![f] = TRUE]
       /\ instances' = Register(instances, f)

\* MonRemote.__init__
Construct(f) ==
  /\ ~constructed[f]
  /\ constructed' = [constructed EXCEPT ![f] = TRUE]
  /\ FacadeRegister(f)
  /\ UNCHANGED <<hbVars, jobVars, nreports, emitVars, listenVars, callVars, batchVars, fetchVars>>

\* MonRemote.register called by the facade's owner
RegisterCall(f) ==
  /\ constructed[f]
  /\ nregs < MaxRegs
  /\ nregs' = nregs + 1
  /\ FacadeRegister(f)
  /\ UNCHANGED <<hbVars, jobVars, nreports, emitVars, constructed,
                 listenVars, returned, lastCall, syncs, batchVars, fetchVars>>

\* MsgGenerator.register(instance) called on the bus itself
GenRegister(f) ==
  /\ generator
  /\ constructed[f]
  /\ nregs < MaxRegs
  /\ nregs' = nregs + 1
  /\ instances' = Register(instances, f)
  /\ UNCHANGED <<generator, started, fgen, hbpc>>
  /\ UNCHANGED <<hbVars, jobVars, nreports, emitVars, constructed,
                 listenVars, returned, lastCall, syncs, batchVars, fetchVars>>

\* a submission that is turned away while another job is in the table
RunJobLimited(f, fqdn, cmd, args) ==
  /\ constructed[f]
  /\ IF ~Reachable(fqdn) \/ jobs # {}
     THEN /\ lastCall' = [fqdn |-> fqdn, outcome |-> "Unavailable", jid |-> 0]
          /\ UNCHANGED <<jobs, tasks, nuuid, returned>>
     ELSE LET jid == NewJid IN
          /\ nuuid < MaxJobs
          /\ nuuid' = nuuid + 1
          /\ jobs' = jobs \cup {jid}
          /\ tasks' = [j \in DOMAIN tasks \cup {jid} |->
                         IF j = jid
                         THEN [cmd |-> cmd, args |-> args, st |-> "spawned"]
                         ELSE tasks[j]]
          /\ returned' = Append(returned, jid)
          /\ lastCall' = [fqdn |-> fqdn, outcome |-> "jid", jid |-> jid]
  /\ UNCHANGED <<genVars, hbVars, lastExc, nreports, emitVars, constructed,
                 listenVars, syncs, nregs, batchVars, fetchVars>>

\* MonRemote.run_job -> MsgGenerator.run_job
RunJob(f, fqdn, cmd, args) ==
  /\ constructed[f]
  /\ IF ~Reachable(fqdn)
     THEN /\ lastCall' = [fqdn |-> fqdn, outcome |-> "Unavailable", jid |-> 0]
          /\ UNCHANGED <<jobs, tasks, nuuid, returned>>
     ELSE LET jid == NewJid IN
          /\ nuuid < MaxJobs
          /\ nuuid' = nuuid + 1
          /\ jobs' = jobs \cup {jid}
          /\ tasks' = [j \in DOMAIN tasks \cup {jid} |->
                         IF j = jid
                         THEN [cmd |-> cmd, args |-> args, st |-> "spawned"]
                         ELSE tasks[j]]
          /\ returned' = Append(returned, jid)
          /\ lastCall' = [fqdn |-> fqdn, outcome |-> "jid", jid |-> jid]
  /\ UNCHANGED <<genVars, hbVars, lastExc, nreports, emitVars, constructed,
                 listenVars, syncs, nregs, batchVars, fetchVars>>

\* a completion that emits but leaves the job in the table
CompleteKeepsJob(jid, ev) ==
  /\ jid \in jobs
  /\ jobs' = jobs
  /\ inbox' = Emit(inbox, ev)
  /\ lastEmit' = <<ev>>
  /\ nemit' = nemit + 1

\* MsgGenerator.complete
Complete(jid, ev) ==
  /\ jid \in jobs                       \* del self._jobs[jid]
  /\ jobs' = jobs \ {jid}
  /\ inbox' = Emit(inbox, ev)
  /\ lastEmit' = <<ev>>
  /\ nemit' = nemit + 1

\* a job thread without the except clause: a raise ends the greenlet before
\* complete() is reached
JobThreadNoCatch(jid, exc) ==
  /\ IF exc = ""
     THEN Complete(jid, JobEvent(jid, TRUE,
                                 ReturnValue(tasks[jid].cmd, tasks[jid].args),
                                 tasks[jid].cmd, tasks[jid].args))
     ELSE UNCHANGED <<jobs, emitVars>>
  /\ tasks' = [j \in DOMAIN tasks \ {jid} |-> tasks[j]]
  /\ lastExc' = exc

\* run_job_thread once run_job(cmd, args) has returned (exc = "") or raised
JobThreadEnd(jid, exc) ==
  /\ Complete(jid, JobEvent(jid, exc = "",
                            IF exc = ""
                            THEN ReturnValue(tasks[jid].cmd, tasks[jid].args)
                            ELSE FormatExc(exc),
                            tasks[jid].cmd, tasks[jid].args))
  /\ tasks' = [j \in DOMAIN tasks \ {jid} |-> tasks[j]]   \* the greenlet ends
  /\ lastExc' = exc

\* the job greenlet is scheduled and calls run_job(cmd, args): an unknown
\* command raises at once, a known one suspends in its collaborator call
JobStart(jid) ==
  /\ jid \in DOMAIN tasks
  /\ tasks[jid].st = "spawned"
  /\ IF RunJobDispatchError(tasks[jid].cmd) # ""
     THEN JobThreadEnd(jid, RunJobDispatchError(tasks[jid].cmd))
     ELSE /\ tasks' = [tasks EXCEPT ![jid].st = "running"]
          /\ UNCHANGED <<jobs, lastExc, emitVars>>
  /\ UNCHANGED <<genVars, hbVars, nuuid, nreports, constructed, listenVars,
                 callVars, batchVars, fetchVars>>

\* the collaborator call of a running job returns or raises
JobFinish(jid) ==
  /\ jid \in DOMAIN tasks
  /\ tasks[jid].st = "running"
  /\ \E exc \in {"", "Error"} : JobThreadEnd(jid, exc)
  /\ UNCHANGED <<genVars, hbVars, nuuid, nreports, constructed, listenVars,
                 callVars, batchVars, fetchVars>>

\* MsgGenerator.running_jobs
RunningJobs ==
  /\ generator
  /\ nreports < MaxReports
  /\ nreports' = nreports + 1
  /\ LET ev == RunningJobsEvent(jobs) IN
       /\ inbox' = Emit(inbox, ev)
       /\ lastEmit' = <<ev>>
       /\ nemit' = nemit + 1
  /\ UNCHANGED <<genVars, hbVars, jobVars, constructed, listenVars, callVars, batchVars, fetchVars>>

\* a run_job_sync that turns a failure into a result holding the trace
RunJobSyncCaptures(cmd, args, exc) ==
  [cmd |-> cmd, args |-> args, exc |-> exc, outcome |-> "return",
   value |-> IF exc = "" THEN ReturnValue(cmd, args) ELSE FormatExc(exc),
   raised |-> "", arg |-> ""]

\* MonRemote.run_job_sync: what the caller gets when run_job(cmd, args)
\* returned (exc = "") or raised exc; the record also keeps the call made
RunJobSyncResult(cmd, args, exc) ==
  IF exc = ""
  THEN [cmd |-> cmd, args |-> args, exc |-> exc, outcome |-> "return",
        value |-> ReturnValue(cmd, args), raised |-> "", arg |-> ""]
  ELSE [cmd |-> cmd, args |-> args, exc |-> exc, outcome |-> "raise",
        value |-> "", raised |-> "Unavailable", arg |-> cmd]

\* MonRemote.run_job_sync
RunJobSync(f, cmd, args) ==
  /\ constructed[f]
  /\ Len(syncs) < MaxSync
  /\ \E exc \in IF RunJobDispatchError(cmd) # ""
                THEN {RunJobDispatchError(cmd)} ELSE {"", "Error"} :
       syncs' = Append(syncs, RunJobSyncResult(cmd, args, exc))
  /\ UNCHANGED <<genVars, hbVars, jobVars, nreports, emitVars, constructed,
                 listenVars, returned, lastCall, nregs, batchVars, fetchVars>>

\* ------------------------------------------------------ heartbeat greenlet
\* a loop that goes from its wait into the next round without looking at
\* _complete (one round beyond the bound, so that the round can be seen)
HbLoopNoTest ==
  /\ hbpc \in {"start", "sleep"}
  /\ rounds < MaxRounds + 1
  /\ rounds' = rounds + 1
  /\ hbpc' = "probe"
  /\ waited' = 0
  /\ UNCHANGED <<generator, started, instances, fgen, complete, stoppedIn, probe, jobVars,
                 nreports, emitVars, constructed, listenVars, callVars, batchVars, fetchVars>>

\* MsgGenerator._run: the while test (on start, and when the wait of
\* HEARTBEAT_PERIOD returns), then get_heartbeats() starts probing
HbLoop ==
  /\ hbpc \in {"start", "sleep"}
  /\ IF complete
     THEN /\ hbpc' = "stopped"
          /\ UNCHANGED <<rounds, waited>>
     ELSE /\ rounds < MaxRounds
          /\ rounds' = rounds + 1
          /\ hbpc' = "probe"
          /\ waited' = 0
  /\ UNCHANGED <<generator, started, instances, fgen, complete, stoppedIn, probe, jobVars,
                 nreports, emitVars, constructed, listenVars, callVars, batchVars, fetchVars>>

\* get_heartbeats() returns; both events are emitted; the loop sleeps
HbEmit ==
  /\ hbpc = "probe"
  /\ \E cluster_heartbeat \in SUBSET Fsids :
       LET q1 == Emit(inbox, ServerHeartbeatEvent)
       IN IF cluster_heartbeat # {}
          THEN /\ inbox' = Emit(q1, HeartbeatEvent(cluster_heartbeat))
               /\ lastEmit' = <<ServerHeartbeatEvent,
                                HeartbeatEvent(cluster_heartbeat)>>
               /\ nemit' = nemit + 2
          ELSE /\ inbox' = q1
               /\ lastEmit' = <<ServerHeartbeatEvent>>
               /\ nemit' = nemit + 1
  /\ hbpc' = "sleep"
  /\ UNCHANGED <<generator, started, instances, fgen, hbVars, jobVars,
                 nreports, constructed, listenVars, callVars, batchVars, fetchVars>>

\* _complete.wait(HEARTBEAT_PERIOD) is over: the event is set or the period
\* has passed
WaitOver == complete \/ waited = HEARTBEAT_PERIOD

\* HbLoop where time is kept: the loop leaves its wait only when it is over
HbWake ==
  /\ hbpc = "sleep" => WaitOver
  /\ HbLoop

\* one unit of time passes while _run waits
Tick ==
  /\ hbpc = "sleep"
  /\ ~WaitOver
  /\ waited' = waited + 1
  /\ UNCHANGED <<genVars, complete, rounds, stoppedIn, probe, jobVars, nreports,
                 emitVars, constructed, listenVars, callVars, batchVars, fetchVars>>

\* a first loop that takes every mon that answers, in quorum or not
InQuorumAny(service, quorate) == service.type = "mon"

\* get_heartbeats: the test that makes a service's cluster one to ask,
\* type == 'mon' and status['rank'] in status['quorum']
InQuorum(service, quorate) == service.type = "mon" /\ service \in quorate

\* get_heartbeats, the loop over mon_sockets.items() taken in order: the
\* with block connects (or rados.Error leaves the handle unconnected),
\* cluster_status runs, and __exit__ shuts the session whatever happened in
\* the block; rados.Error is swallowed, any other exception ends the call
RECURSIVE ClusterLoop(_, _, _)
ClusterLoop(order, co, acc) ==
  IF order = <<>> \/ acc.raised # "" THEN acc
  ELSE LET fsid == Head(order)
           inblock == <<[fsid |-> fsid, op |-> "connect"],
                        [fsid |-> fsid, op |-> "cluster_status"],
                        [fsid |-> fsid, op |-> "shutdown"]>>
       IN ClusterLoop(Tail(order), co,
            CASE co[fsid] = "connect" ->
                   [acc EXCEPT !.log = Append(@, [fsid |-> fsid,
                                                  op |-> "connect failed"])]
              [] co[fsid] = "ok" ->
                   [acc EXCEPT !.clusters = @ \cup {fsid},
                               !.log = @ \o inblock]
              [] co[fsid] = "rados.Error" ->
                   [acc EXCEPT !.log = @ \o inblock]
              [] co[fsid] = "TypeError" ->
                   [acc EXCEPT !.raised = "TypeError",
                               !.log = @ \o inblock])

\* get_heartbeats() on a node where glob finds the sockets present: so[s] is
\* how service_status(s) ends (its dict, rados.Error, or the ValueError of
\* json.loads on a reply that is no JSON), quorate the mons whose rank is in
\* their quorum, co[fsid] how the with block of a cluster ends, order the
\* order in which mon_sockets.items() yields
get_heartbeats(round, present, so, quorate, co, order) ==
  LET answered == {s \in present : so[s] = "ok"}
      mon_sockets == {FsidOf(s.cluster) : s \in {a \in answered : InQuorum(a, quorate)}}
      first == [NoProbe EXCEPT !.round = round,
                               !.present = present,
                               !.replies = [s \in present |-> so[s]],
                               !.quorate = quorate \cap answered,
                               !.services = answered]
  IN IF \E s \in present : so[s] = "ValueError"
     THEN [first EXCEPT !.raised = "ValueError", !.services = {}]
     ELSE ClusterLoop(order, co,
                      [first EXCEPT !.statuses = [f \in mon_sockets |-> co[f]],
                                    !.order = order])

\* the orders in which a dict with the keys S can yield them
OrdersOf(S) == {q \in SeqsUpTo(S, Cardinality(S)) :
                  Len(q) = Cardinality(S) /\ Range(q) = S}

\* one round of _run with get_heartbeats() in full: it returns and both
\* events are emitted, or it raises and _run logs and re-raises
HbRound(present, so, quorate, co) ==
  /\ hbpc = "probe"
  /\ \E order \in OrdersOf({FsidOf(s.cluster) :
                               s \in {a \in present : so[a] = "ok"
                                                      /\ InQuorum(a, quorate)}}) :
       LET r == get_heartbeats(rounds, present, so, quorate, co, order)
           q1 == Emit(inbox, ServerHeartbeatEvent)
       IN /\ probe' = r
          /\ IF r.raised # ""
             THEN /\ hbpc' = "crashed"
                  /\ UNCHANGED emitVars
             ELSE /\ hbpc' = "sleep"
                  /\ IF r.clusters # {}
                     THEN /\ inbox' = Emit(q1, HeartbeatEvent(r.clusters))
                          /\ lastEmit' = <<ServerHeartbeatEvent,
                                           HeartbeatEvent(r.clusters)>>
                          /\ nemit' = nemit + 2
                     ELSE /\ inbox' = q1
                          /\ lastEmit' = <<ServerHeartbeatEvent>>
                          /\ nemit' = nemit + 1
  /\ UNCHANGED <<generator, started, instances, fgen, complete, rounds, waited,
                 stoppedIn, jobVars, nreports, constructed, listenVars,
                 callVars, batchVars, fetchVars>>

\* the inputs of a round without the ones that change nothing: a socket that
\* is not there gives no reply, and only a mon that is there has a quorum
ProbeInputs(present, so, quorate) ==
  /\ \A s \in Sockets \ present : so[s] = "ok"
  /\ quorate \subseteq {s \in present : s.type = "mon"}

\* get_heartbeats() raises something it does not catch: logged and re-raised
HbCrash ==
  /\ hbpc = "probe"
  /\ hbpc' = "crashed"
  /\ UNCHANGED <<generator, started, instances, fgen, hbVars, jobVars,
                 nreports, emitVars, constructed, listenVars, callVars, batchVars, fetchVars>>

\* the stop signal: _complete.set()
BusStop ==
  /\ generator
  /\ ~complete
  /\ complete' = TRUE
  /\ stoppedIn' = hbpc
  /\ UNCHANGED <<genVars, rounds, waited, probe, jobVars, nreports, emitVars,
                 constructed, listenVars, callVars, batchVars, fetchVars>>

\* ------------------------------------------------------- MonRemote.listen
\* history: what f's queue holds as its listen call ends
LeftAt(f) == IF recording THEN [leftover EXCEPT ![f] = inbox'[f]] ELSE leftover

\* a loop that looks at completion only once the queue holds nothing beyond
\* the event just taken
ListenLoopDrain(f, sub) ==
  IF completion'[f] /\ Len(inbox[f]) <= 1
  THEN /\ subscribed' = [sub EXCEPT ![f] = @ - 1]
       /\ lpc' = [lpc EXCEPT ![f] = "returned"]
       /\ leftover' = LeftAt(f)
  ELSE /\ subscribed' = sub
       /\ lpc' = [lpc EXCEPT ![f] = "wait"]
       /\ UNCHANGED leftover

\* the while test of listen, made with no suspension after the code before
\* it: leave the loop (self.subscribed -= 1) or wait on the queue
ListenLoop(f, sub) ==
  IF completion'[f]
  THEN /\ subscribed' = [sub EXCEPT ![f] = @ - 1]
       /\ lpc' = [lpc EXCEPT ![f] = "returned"]
       /\ leftover' = LeftAt(f)
  ELSE /\ subscribed' = sub
       /\ lpc' = [lpc EXCEPT ![f] = "wait"]
       /\ UNCHANGED leftover

\* a listen call that begins on a queue of its own making
ListenStartFresh(f) ==
  /\ constructed[f]
  /\ lpc[f] \in {"idle", "returned", "raised"}
  /\ subscribed[f] < MaxSubscribed
  /\ before' = [before EXCEPT ![f] = subscribed[f]]
  /\ FacadeRegister(f)
  /\ \E hs \in HandlerSets : handlers' = [handlers EXCEPT ![f] = hs]
  /\ \E c \in BOOLEAN : completion' = [completion EXCEPT ![f] = c]
  /\ nlisten' = IF recording THEN [nlisten EXCEPT ![f] = @ + 1] ELSE nlisten
  /\ UNCHANGED <<hbVars, jobVars, nreports, lastEmit, nemit, constructed, recording,
                 calls, callVars, batchVars, fetchVars>>
  /\ inbox' = [inbox EXCEPT ![f] = <<>>]
  /\ ListenLoop(f, [subscribed EXCEPT ![f] = @ + 1])

\* self.subscribed += 1; self.register(); first while test
ListenStart(f) ==
  /\ constructed[f]
  /\ lpc[f] \in {"idle", "returned", "raised"}
  /\ subscribed[f] < MaxSubscribed
  /\ before' = [before EXCEPT ![f] = subscribed[f]]
  /\ FacadeRegister(f)
  /\ \E hs \in HandlerSets : handlers' = [handlers EXCEPT ![f] = hs]
  /\ \E c \in BOOLEAN : completion' = [completion EXCEPT ![f] = c]
  /\ nlisten' = IF recording THEN [nlisten EXCEPT ![f] = @ + 1] ELSE nlisten
  /\ UNCHANGED <<hbVars, jobVars, nreports, emitVars, constructed, recording,
                 calls, callVars, batchVars, fetchVars>>
  /\ ListenLoop(f, [subscribed EXCEPT ![f] = @ + 1])

\* a queue that hands out the newest event first
QueueGetNewest(q) == [ev |-> q[Len(q)], rest |-> SubSeq(q, 1, Len(q) - 1)]

\* Queue.get on a queue that is not empty: the oldest event, and what stays
QueueGet(q) == [ev |-> Head(q), rest |-> Tail(q)]

\* a dispatch that calls every callback passed, whatever the event's kind
CallbacksAll(hs, ev) ==
  {[handler |-> k, arg |-> ev] : k \in hs}

\* the branch of listen's if/elif chain ev takes, as the calls it makes:
\* one call of on_heartbeat per cluster of ev.data, or one call of the
\* callback of the event's kind with the fields listen passes; no call when
\* that callback was not passed
Callbacks(hs, ev) ==
  CASE ev.kind = HEARTBEAT /\ HEARTBEAT \in hs ->
         {[handler |-> HEARTBEAT, arg |-> fsid] : fsid \in ev.fsids}
    [] ev.kind = SERVER_HEARTBEAT /\ SERVER_HEARTBEAT \in hs ->
         {[handler |-> SERVER_HEARTBEAT, arg |-> "services"]}
    [] ev.kind = JOB /\ JOB \in hs ->
         {[handler |-> JOB,
           arg |-> <<ev.jid, ev.success, ev.return, ev.fun, ev.fun_args>>]}
    [] ev.kind = RUNNING_JOBS /\ RUNNING_JOBS \in hs ->
         {[handler |-> RUNNING_JOBS, arg |-> ev.jids]}
    [] OTHER -> {}

\* the calls a dispatch can have made when it ends: all of its branch, or,
\* when a callback raised, the ones up to that one
Invocations(hs, ev, raised) ==
  IF raised THEN (SUBSET Callbacks(hs, ev)) \ {{}} ELSE {Callbacks(hs, ev)}

\* does listen call a callback for this event
Dispatches(hs, ev) ==
  /\ ev.kind \in hs
  /\ ev.kind = HEARTBEAT => ev.fsids # {}

\* what follows a callback that raised (raised = TRUE) or the end of the
\* else branch (raised = FALSE)
AfterDispatch(f, raised) ==
  IF raised
  THEN /\ lpc' = [lpc EXCEPT ![f] = "raised"]
       /\ leftover' = LeftAt(f)
       /\ UNCHANGED subscribed
  ELSE ListenLoop(f, subscribed)

\* self._events.get(timeout=1) yields an event, which is dispatched
ListenGet(f) ==
  /\ lpc[f] = "wait"
  /\ inbox[f] # <<>>
  /\ LET got == QueueGet(inbox[f]) IN
       /\ inbox' = [inbox EXCEPT ![f] = got.rest]
       /\ UNCHANGED completion
       /\ \E raises \in BOOLEAN :
            LET raised == Dispatches(handlers[f], got.ev) /\ raises IN
            /\ AfterDispatch(f, raised)
            /\ \E invoked \in Invocations(handlers[f], got.ev, raised) :
                 calls' = IF recording
                          THEN [calls EXCEPT ![f] =
                                  Append(@, [listen |-> nlisten[f],
                                             ev |-> got.ev,
                                             invoked |-> invoked,
                                             raised |-> raised])]
                          ELSE calls
  /\ UNCHANGED <<genVars, hbVars, jobVars, nreports, lastEmit, nemit,
                 constructed, handlers, before, recording, nlisten, callVars,
                 batchVars, fetchVars>>

\* self._events.get(timeout=1) raises Empty, which is passed over; the
\* step is left out while it would change nothing
ListenEmpty(f) ==
  /\ lpc[f] = "wait"
  /\ inbox[f] = <<>>
  /\ completion[f]
  /\ UNCHANGED completion
  /\ UNCHANGED <<genVars, hbVars, jobVars, nreports, emitVars, constructed,
                 handlers, before, recording, calls, nlisten, callVars,
                 batchVars, fetchVars>>
  /\ ListenLoop(f, subscribed)

\* the caller sets the completion Event of f's listen call
SetCompletion(f) ==
  /\ lpc[f] = "wait"
  /\ ~completion[f]
  /\ completion' = [completion EXCEPT ![f] = TRUE]
  /\ UNCHANGED <<genVars, hbVars, jobVars, nreports, emitVars, constructed,
                 subscribed, lpc, handlers, before, recording, calls, nlisten,
                 leftover, callVars, batchVars, fetchVars>>

\* ---------------------------------------------- rados_commands, stepwise
\* ClusterHandle.__exit__
Shutdown == session' = "shutdown"

\* a loop that goes on to the next command after a nonzero status
StopsNever(ret) == FALSE

\* rados_commands: the test that ends the loop, ret != 0
StopsAt(ret) == ret # 0

\* an error exit that returns without asking for the versions
ErrorExitNoVersions(outs) ==
  /\ berr' = outs
  /\ bpc' = "returned"
  /\ bres' = [error |-> TRUE, results |-> results, error_status |-> outs,
              versions |-> NoVersions, returned |-> TRUE]
  /\ Shutdown
  /\ UNCHANGED <<sq, bvers, braise>>

\* rados_commands: the return inside the loop; building its dict calls
\* cluster_status first
ErrorExit(outs) ==
  /\ berr' = outs
  /\ bpc' = "status"
  /\ UNCHANGED <<bres, session, sq, bvers, braise>>

\* a caller passes commands to rados_commands; ClusterHandle.__enter__
\* connects, or raises
BatchCall(cmds, connected) ==
  /\ bpc = "idle"
  /\ commands' = cmds
  /\ IF connected
     THEN /\ session' = "open"
          /\ bpc' = IF cmds = <<>> THEN "status" ELSE "loop"
          /\ braise' = ""
     ELSE /\ session' = "none"
          /\ bpc' = "raised"
          /\ braise' = "rados.Error"
  /\ UNCHANGED <<bi, results, berr, sq, bvers, bres, sessLog, epoch>>
  /\ UNCHANGED <<genVars, hbVars, jobVars, nreports, emitVars, constructed,
                 listenVars, callVars, fetchVars>>

\* a loop that passes the text crushtool rejected on to the cluster before
\* it gives up
BatchCompileFailsLate ==
  /\ bpc = "loop"
  /\ commands[bi] = "osd setcrushmap"
  /\ bpc' = "raised"
  /\ braise' = "RuntimeError"
  /\ Shutdown
  /\ sessLog' = Append(sessLog, [kind |-> "command", prefix |-> commands[bi],
                                 index |-> bi, ret |-> 1, outbuf |-> "",
                                 outs |-> "", epoch |-> epoch])
  /\ UNCHANGED <<commands, bi, results, berr, sq, bvers, bres, epoch>>
  /\ UNCHANGED <<genVars, hbVars, jobVars, nreports, emitVars, constructed,
                 listenVars, callVars, fetchVars>>

\* one turn of the loop: transform_crushmap(argdict['data'], 'set') fails,
\* with RuntimeError raised through the with block
BatchCompileFails ==
  /\ bpc = "loop"
  /\ commands[bi] = "osd setcrushmap"
  /\ bpc' = "raised"
  /\ braise' = "RuntimeError"
  /\ Shutdown
  /\ UNCHANGED <<commands, bi, results, berr, sq, bvers, bres, sessLog, epoch>>
  /\ UNCHANGED <<genVars, hbVars, jobVars, nreports, emitVars, constructed,
                 listenVars, callVars, fetchVars>>

\* one turn of the loop: json_command is issued and replies (ret, outbuf,
\* outs); a command that succeeds changes the map and so raises the epoch
BatchSubmit(ret, outbuf, outs) ==
  /\ bpc = "loop"
  /\ LET ep == IF ret = 0 THEN epoch + 1 ELSE epoch IN
       /\ epoch' = ep
       /\ sessLog' = Append(sessLog, [kind |-> "command", prefix |-> commands[bi],
                                      index |-> bi, ret |-> ret,
                                      outbuf |-> outbuf, outs |-> outs,
                                      epoch |-> ep])
  /\ IF StopsAt(ret)
     THEN /\ ErrorExit(outs)
          /\ UNCHANGED <<bi, results>>
     ELSE IF outbuf # "" /\ ~IsJson(outbuf)
     THEN /\ bpc' = "raised"
          /\ braise' = "ValueError"      \* from json.loads
          /\ Shutdown
          /\ UNCHANGED <<bi, results, berr, sq, bvers, bres>>
     ELSE /\ results' = Append(results, ResultOf(outbuf))
          /\ bi' = bi + 1
          /\ bpc' = IF bi = Len(commands) THEN "status" ELSE "loop"
          /\ UNCHANGED <<berr, sq, bvers, bres, braise, session>>
  /\ UNCHANGED commands
  /\ UNCHANGED <<genVars, hbVars, jobVars, nreports, emitVars, constructed,
                 listenVars, callVars, fetchVars>>

\* the dict rados_commands returns
BatchResult(vers) ==
  [error |-> berr # "", results |-> results, error_status |-> berr,
   versions |-> vers, returned |-> TRUE]

\* cluster_status: its next query is made and answers (ok) or fails, which
\* raises rados.Error through the with block; 'status' gives the map versions;
\* after the last query rados_commands returns
BatchStatus(ok) ==
  /\ bpc = "status"
  /\ sessLog' = Append(sessLog, [kind |-> "status",
                                 prefix |-> StatusQueries[sq], index |-> sq,
                                 ret |-> IF ok THEN 0 ELSE 1,
                                 outbuf |-> "", outs |-> "", epoch |-> epoch])
  /\ IF ~ok
     THEN /\ bpc' = "raised"
          /\ braise' = "rados.Error"
          /\ Shutdown
          /\ UNCHANGED <<sq, bvers, bres>>
     ELSE LET vers == IF StatusQueries[sq] = "status" THEN epoch ELSE bvers IN
          /\ bvers' = vers
          /\ UNCHANGED braise
          /\ IF sq < Len(StatusQueries)
             THEN /\ sq' = sq + 1
                  /\ UNCHANGED <<bpc, bres, session>>
             ELSE /\ bpc' = "returned"
                  /\ bres' = BatchResult(vers)
                  /\ Shutdown
                  /\ UNCHANGED sq
  /\ UNCHANGED <<commands, bi, results, berr, epoch>>
  /\ UNCHANGED <<genVars, hbVars, jobVars, nreports, emitVars, constructed,
                 listenVars, callVars, fetchVars>>

\* the cluster's map changes for a reason of its own
ClusterAdvance ==
  /\ session = "open" \/ fsession = "open"
  /\ epoch < MaxEpoch
  /\ epoch' = epoch + 1
  /\ UNCHANGED <<commands, bpc, bi, results, berr, sq, bvers, bres, braise,
                 session, sessLog>>
  /\ UNCHANGED <<genVars, hbVars, jobVars, nreports, emitVars, constructed,
                 listenVars, callVars, fetchVars>>

\* ------------------------------------------ run_job and get_cluster_object
\* the entry a query adds to fLog: a reply to a query that names an epoch
\* reflects that epoch, any other reflects the cluster as it is now
Query(prefix, epochArg, id, ret) ==
  Append(fLog, [prefix |-> prefix, epochArg |-> epochArg, id |-> id,
                ret |-> ret,
                seen |-> IF epochArg # 0 THEN epochArg ELSE epoch])

\* an exception that leaves the block with the session still connected
FetchRaiseOpen(exc) ==
  /\ fpc' = "raised"
  /\ fraise' = exc
  /\ UNCHANGED fsession
  /\ UNCHANGED fres

\* an exception leaves the with block: ClusterHandle.__exit__ shuts the session
FetchRaise(exc) ==
  /\ fpc' = "raised"
  /\ fraise' = exc
  /\ fsession' = "shutdown"
  /\ UNCHANGED fres

\* the with block is left and the dict is returned
FetchReturn(version, data) ==
  /\ fpc' = "returned"
  /\ fres' = [returned |-> TRUE, type |-> ftype, version |-> version,
              data |-> data]
  /\ fsession' = "shutdown"
  /\ UNCHANGED fraise

\* run_job(cmd, args) is called; connected tells whether a ClusterHandle the
\* function opens connects. get_cluster_object goes on in the steps below,
\* the other functions are run to their end here (a rados_commands call is
\* BatchCall)
RunJobCall(cmd, sync_type, connected) ==
  /\ fpc = "idle"
  /\ LET target == RunJobTarget(cmd) IN
       /\ target # "rados_commands"
       /\ jcall' = [cmd |-> cmd, target |-> target]
       /\ CASE target = "" ->
                 /\ fpc' = "raised"
                 /\ fraise' = "TypeError"
                 /\ UNCHANGED <<ftype, fsession, nproc>>
            [] target = "get_cluster_object" ->
                 /\ ftype' = sync_type
                 /\ nproc' = nproc
                 /\ IF sync_type \notin SYNC_TYPES
                    THEN /\ fpc' = "raised"
                         /\ fraise' = "AssertionError"
                         /\ UNCHANGED fsession
                    ELSE IF connected
                    THEN /\ fpc' = "status"
                         /\ fsession' = "open"
                         /\ UNCHANGED fraise
                    ELSE /\ fpc' = "raised"
                         /\ fraise' = "rados.Error"
                         /\ fsession' = "failed"
            [] target \in {"ceph_command", "rbd_command"} ->
                 /\ nproc' = nproc + 1
                 /\ fpc' = "done"
                 /\ UNCHANGED <<ftype, fsession, fraise>>
            [] target \in {"cluster_stats", "pool_stats"} ->
                 /\ fsession' = IF connected THEN "open" ELSE "failed"
                 /\ fpc' = IF connected THEN "stats" ELSE "raised"
                 /\ fraise' = IF connected THEN "" ELSE "rados.Error"
                 /\ UNCHANGED <<ftype, nproc>>
  /\ UNCHANGED <<fLog, fraw, fver, fdata, fi, fres>>
  /\ UNCHANGED <<genVars, hbVars, jobVars, nreports, emitVars, constructed,
                 listenVars, callVars, batchVars>>

\* how the body of the with block of cluster_stats and pool_stats can end
StatsOutcomes == {"ok", "rados.Error", "RuntimeError"}

\* cluster_stats and pool_stats, the body of their with block: the calls on
\* the handle give the statistics, or one of them raises (rados.Error from the
\* handle, the RuntimeError pool_stats makes of a failed pool lookup); either
\* way the block is left and ClusterHandle.__exit__ shuts the session
StatsRun(outcome) ==
  /\ fpc = "stats"
  /\ fsession' = "shutdown"
  /\ IF outcome = "ok"
     THEN /\ fpc' = "done"
          /\ UNCHANGED fraise
     ELSE /\ outcome = "RuntimeError" => jcall.target = "pool_stats"
          /\ fpc' = "raised"
          /\ fraise' = outcome
  /\ UNCHANGED <<jcall, ftype, fLog, fraw, fver, fdata, fi, fres, nproc>>
  /\ UNCHANGED <<genVars, hbVars, jobVars, nreports, emitVars, constructed,
                 listenVars, callVars, batchVars>>

\* the 'status' query; its ret is not looked at: the call goes on when the
\* reply decodes and holds 'fsid', and json.loads or the lookup raises when
\* it does not
FetchStatus(ret, decodes) ==
  /\ fpc = "status"
  /\ fLog' = Query("status", 0, -1, ret)
  /\ IF decodes
     THEN /\ fpc' = IF ftype = "config" THEN "config" ELSE "data"
          /\ UNCHANGED <<fsession, fraise, fres>>
     ELSE FetchRaise("ValueError")
  /\ UNCHANGED <<jcall, ftype, fraw, fver, fdata, fi, nproc>>
  /\ UNCHANGED <<genVars, hbVars, jobVars, nreports, emitVars, constructed,
                 listenVars, callVars, batchVars>>

\* sync_type 'config': _get_config asks the mon's admin socket
FetchConfig(ok, raw) ==
  /\ fpc = "config"
  /\ fLog' = Query("config show", 0, -1, IF ok THEN 0 ELSE 1)
  /\ IF ok
     THEN /\ fraw' = raw
          /\ fver' = Md5(raw)
          /\ fdata' = [NoData EXCEPT !.content = JsonObject(raw)]
          /\ FetchReturn(fver', fdata')
     ELSE /\ FetchRaise("AdminSocketError")
          /\ UNCHANGED <<fraw, fver, fdata>>
  /\ UNCHANGED <<jcall, ftype, fi, nproc>>
  /\ UNCHANGED <<genVars, hbVars, jobVars, nreports, emitVars, constructed,
                 listenVars, callVars, batchVars>>

\* the types whose version is an epoch read from the object: the command of
\* the table is issued; for osd_map the reply lists osds and the call goes on
FetchEpochObject(ok, osds) ==
  /\ fpc = "data"
  /\ ftype \in {"quorum_status", "mon_status", "mon_map", "osd_map", "mds_map"}
  /\ ftype # "osd_map" => osds = <<>>
  /\ fLog' = Query(CommandOf(ftype), 0, -1, IF ok THEN 0 ELSE 1)
  /\ IF ok
     THEN /\ fdata' = [NoData EXCEPT !.object = ReplyOf(ftype, epoch, osds),
                                     !.osds = osds]
          /\ fver' = version_fn(ftype, fdata'.object, <<>>)
          /\ IF ftype = "osd_map"
             THEN /\ fpc' = "tree"
                  /\ UNCHANGED <<fsession, fraise, fres>>
             ELSE FetchReturn(fver', fdata')
     ELSE /\ FetchRaise("AssertionError")
          /\ UNCHANGED <<fver, fdata>>
  /\ UNCHANGED <<jcall, ftype, fraw, fi, nproc>>
  /\ UNCHANGED <<genVars, hbVars, jobVars, nreports, emitVars, constructed,
                 listenVars, callVars, batchVars>>

\* sync_type 'pg_summary': data is pg_summary of the reply, version the md5
\* of its msgpack form
FetchPgSummary(ok, pgs) ==
  /\ fpc = "data"
  /\ ftype = "pg_summary"
  /\ fLog' = Query(CommandOf(ftype), 0, -1, IF ok THEN 0 ELSE 1)
  /\ IF ok
     THEN /\ fraw' = pgs
          /\ fdata' = [NoData EXCEPT !.summary = pg_summary(pgs)]
          /\ fver' = version_fn(ftype, fdata'.summary, DumpText(pgs))
          /\ FetchReturn(fver', fdata')
     ELSE /\ FetchRaise("AssertionError")
          /\ UNCHANGED <<fraw, fver, fdata>>
  /\ UNCHANGED <<jcall, ftype, fi, nproc>>
  /\ UNCHANGED <<genVars, hbVars, jobVars, nreports, emitVars, constructed,
                 listenVars, callVars, batchVars>>

\* sync_type 'health': version is the md5 of the raw reply
FetchHealth(ok, raw) ==
  /\ fpc = "data"
  /\ ftype = "health"
  /\ fLog' = Query(CommandOf(ftype), 0, -1, IF ok THEN 0 ELSE 1)
  /\ IF ok
     THEN /\ fraw' = raw
          /\ fdata' = [NoData EXCEPT !.content = JsonObject(raw)]
          /\ fver' = version_fn(ftype, fdata'.content, raw)
          /\ FetchReturn(fver', fdata')
     ELSE /\ FetchRaise("AssertionError")
          /\ UNCHANGED <<fraw, fver, fdata>>
  /\ UNCHANGED <<jcall, ftype, fi, nproc>>
  /\ UNCHANGED <<genVars, hbVars, jobVars, nreports, emitVars, constructed,
                 listenVars, callVars, batchVars>>

\* osd_map: 'osd tree' with 'epoch': version
FetchTree(ok) ==
  /\ fpc = "tree"
  /\ fLog' = Query("osd tree", fver, -1, IF ok THEN 0 ELSE 1)
  /\ IF ok
     THEN /\ fdata' = [fdata EXCEPT !.tree = fLog'[Len(fLog')].seen]
          /\ fpc' = "crush"
          /\ UNCHANGED <<fsession, fraise, fres>>
     ELSE /\ FetchRaise("AssertionError")
          /\ UNCHANGED fdata
  /\ UNCHANGED <<jcall, ftype, fraw, fver, fi, nproc>>
  /\ UNCHANGED <<genVars, hbVars, jobVars, nreports, emitVars, constructed,
                 listenVars, callVars, batchVars>>

\* osd_map: 'osd crush dump' with argdict=kwargs, which names no epoch
FetchCrushDump(ok) ==
  /\ fpc = "crush"
  /\ fLog' = Query("osd crush dump", 0, -1, IF ok THEN 0 ELSE 1)
  /\ IF ok
     THEN /\ fdata' = [fdata EXCEPT !.crush = fLog'[Len(fLog')].seen]
          /\ fpc' = "getcrushmap"
          /\ UNCHANGED <<fsession, fraise, fres>>
     ELSE /\ FetchRaise("AssertionError")
          /\ UNCHANGED fdata
  /\ UNCHANGED <<jcall, ftype, fraw, fver, fi, nproc>>
  /\ UNCHANGED <<genVars, hbVars, jobVars, nreports, emitVars, constructed,
                 listenVars, callVars, batchVars>>

\* osd_map: 'osd getcrushmap' with 'epoch': version; the binary map is kept
\* for crushtool
FetchGetCrushmap(ok) ==
  /\ fpc = "getcrushmap"
  /\ fLog' = Query("osd getcrushmap", fver, -1, IF ok THEN 0 ELSE 1)
  /\ IF ok
     THEN /\ fdata' = [fdata EXCEPT !.crush_map_text = fLog'[Len(fLog')].seen]
          /\ fpc' = "crushtool"
          /\ UNCHANGED <<fsession, fraise, fres>>
     ELSE /\ FetchRaise("AssertionError")
          /\ UNCHANGED fdata
  /\ UNCHANGED <<jcall, ftype, fraw, fver, fi, nproc>>
  /\ UNCHANGED <<genVars, hbVars, jobVars, nreports, emitVars, constructed,
                 listenVars, callVars, batchVars>>

\* osd_map: transform_crushmap(raw, 'get') runs crushtool -d; then
\* data['osd_metadata'] = [] and the loop over data['osds'] begins
FetchDecompile(ok) ==
  /\ fpc = "crushtool"
  /\ nproc' = nproc + 1
  /\ IF ok
     THEN /\ fdata' = [fdata EXCEPT !.osd_metadata = <<>>]
          /\ fi' = 1
          /\ IF fdata.osds = <<>>
             THEN FetchReturn(fver, fdata')
             ELSE /\ fpc' = "meta"
                  /\ UNCHANGED <<fsession, fraise, fres>>
     ELSE /\ FetchRaise("AssertionError")
          /\ UNCHANGED <<fdata, fi>>
  /\ UNCHANGED <<jcall, ftype, fLog, fraw, fver>>
  /\ UNCHANGED <<genVars, hbVars, jobVars, nreports, emitVars, constructed,
                 listenVars, callVars, batchVars>>

\* a loop that keeps an item for an entry whose query failed
MetadataAfterAlways(meta, osd_id, ret, seen) ==
  Append(meta, [osd |-> osd_id, seen |-> seen])

\* the loop body after the query: if ret == 0 the decoded reply, with
\* ['osd'] = osd_id, is appended
MetadataAfter(meta, osd_id, ret, seen) ==
  IF ret = 0 THEN Append(meta, [osd |-> osd_id, seen |-> seen]) ELSE meta

\* osd_map: one turn of the loop over data['osds']: 'osd metadata' with
\* {'id': osd_id} and kwargs, which name no epoch; a reply with ret 0 that
\* is no JSON makes json.loads raise
FetchMetadata(ret, garbled) ==
  /\ fpc = "meta"
  /\ ret # 0 => ~garbled
  /\ LET osd_id == fdata.osds[fi] IN
       /\ fLog' = Query("osd metadata", 0, osd_id, ret)
       /\ IF garbled
          THEN /\ FetchRaise("ValueError")
               /\ UNCHANGED <<fdata, fi>>
          ELSE /\ fdata' = [fdata EXCEPT !.osd_metadata =
                              MetadataAfter(@, osd_id, ret,
                                            fLog'[Len(fLog')].seen)]
               /\ fi' = fi + 1
               /\ IF fi = Len(fdata.osds)
                  THEN FetchReturn(fver, fdata')
                  ELSE UNCHANGED <<fpc, fsession, fraise, fres>>
  /\ UNCHANGED <<jcall, ftype, fraw, fver, nproc>>
  /\ UNCHANGED <<genVars, hbVars, jobVars, nreports, emitVars, constructed,
                 listenVars, callVars, batchVars>>

\* ------------------------------------------------------------------- Next
Next ==
  \/ \E f \in Facades : Construct(f)
  \/ \E f \in Facades, fqdn \in Fqdns, cmd \in SubmitCmds, args \in SubmitArgs :
       RunJob(f, fqdn, cmd, args)
  \/ \E jid \in DOMAIN tasks : JobStart(jid)
  \/ \E jid \in DOMAIN tasks : JobFinish(jid)
  \/ RunningJobs
  \/ HbLoop
  \/ HbEmit
  \/ HbCrash
  \/ \E present \in SUBSET Sockets :
       \E so \in [Sockets -> SocketReplies], quorate \in SUBSET Sockets :
         /\ ProbeInputs(present, so, quorate)
         /\ \E co \in [{FsidOf(s.cluster) : s \in Sockets} -> ClusterReplies] :
              HbRound(present, so, quorate, co)
  \/ BusStop
  \/ \E f \in Facades : ListenStart(f)
  \/ \E f \in Facades : ListenGet(f)
  \/ \E f \in Facades : ListenEmpty(f)
  \/ \E f \in Facades : SetCompletion(f)
  \/ \E f \in Facades : RegisterCall(f)
  \/ \E f \in Facades : GenRegister(f)
  \/ \E f \in Facades, cmd \in SyncCmds, args \in SyncArgs :
       RunJobSync(f, cmd, args)
  \/ Tick
  \/ \E cmds \in Batches(MaxBatch), connected \in BOOLEAN :
       BatchCall(cmds, connected)
  \/ BatchCompileFails
  \/ \E outbuf \in Outbufs : BatchSubmit(0, outbuf, "")
  \/ \E outs \in ErrTexts : BatchSubmit(1, "", outs)
  \/ \E ok \in BOOLEAN : BatchStatus(ok)
  \/ ClusterAdvance
  \/ \E cmd \in RunCmds, sync_type \in SyncTypeArgs, connected \in BOOLEAN :
       RunJobCall(cmd, sync_type, connected)
  \/ \E outcome \in StatsOutcomes : StatsRun(outcome)
  \/ \E ret \in {0, 1}, decodes \in BOOLEAN : FetchStatus(ret, decodes)
  \/ \E ok \in BOOLEAN, raw \in RawTexts : FetchConfig(ok, raw)
  \/ \E ok \in BOOLEAN, osds \in OsdLists : FetchEpochObject(ok, osds)
  \/ \E ok \in BOOLEAN, pgs \in PgLists : FetchPgSummary(ok, pgs)
  \/ \E ok \in BOOLEAN, raw \in RawTexts : FetchHealth(ok, raw)
  \/ \E ok \in BOOLEAN : FetchTree(ok)
  \/ \E ok \in BOOLEAN : FetchCrushDump(ok)
  \/ \E ok \in BOOLEAN : FetchGetCrushmap(ok)
  \/ \E ok \in BOOLEAN : FetchDecompile(ok)
  \/ \E ret \in {0, 1}, garbled \in BOOLEAN : FetchMetadata(ret, garbled)

Spec == Init /\ [][Next]_vars

\* the job role: submission to the local agent, the job greenlets, the
\* running-jobs report and the subscribers that receive their events. It
\* starts where both facades exist, the first constructed is inside a listen
\* call (with every callback given) and the other has never listened.
InitJobs ==
  /\ generator = TRUE
  /\ started = 1
  /\ instances = <<"r1", "r2">>
  /\ fgen = [f \in Facades |-> TRUE]
  /\ hbpc = "start"
  /\ complete = FALSE
  /\ rounds = 0
  /\ waited = 0
  /\ stoppedIn = ""
  /\ probe = NoProbe
  /\ jobs = {}
  /\ tasks = <<>>
  /\ nuuid = 0
  /\ lastExc = ""
  /\ nreports = 0
  /\ inbox = [f \in Facades |-> <<>>]
  /\ lastEmit = <<>>
  /\ nemit = 0
  /\ constructed = [f \in Facades |-> TRUE]
  /\ LET L == {"r1"} IN
       /\ subscribed = [f \in Facades |-> IF f \in L THEN 1 ELSE 0]
       /\ lpc = [f \in Facades |-> IF f \in L THEN "wait" ELSE "idle"]
       /\ handlers = [f \in Facades |->
                        IF f \in L THEN {JOB, HEARTBEAT, SERVER_HEARTBEAT,
                                         RUNNING_JOBS}
                        ELSE {}]
  /\ completion = [f \in Facades |-> FALSE]
  /\ before = [f \in Facades |-> 0]
  /\ recording = FALSE
  /\ calls = [f \in Facades |-> <<>>]
  /\ nlisten = [f \in Facades |-> 0]
  /\ leftover = [f \in Facades |-> <<>>]
  /\ returned = <<>>
  /\ lastCall = [fqdn |-> "", outcome |-> "none", jid |-> 0]
  /\ syncs = <<>>
  /\ nregs = 0
  /\ BatchIdle
  /\ FetchIdle

NextJobs ==
  \/ \E f \in Facades, cmd \in SubmitCmds, args \in SubmitArgs :
       RunJob(f, LocalFqdn, cmd, args)
  \/ \E jid \in DOMAIN tasks : JobStart(jid)
  \/ \E jid \in DOMAIN tasks : JobFinish(jid)
  \/ RunningJobs
  \/ \E f \in Facades : ListenGet(f)
  \/ \E f \in Facades : ListenEmpty(f)
  \/ \E f \in Facades : SetCompletion(f)

SpecJobs == InitJobs /\ [][NextJobs]_vars

\* the heartbeat role and the fan-out to listening subscribers; the reports
\* of the job table are those made before the first round
NextFan ==
  \/ \E f \in Facades : Construct(f)
  \/ hbpc = "start" /\ RunningJobs
  \/ HbLoop
  \/ HbEmit
  \/ HbCrash
  \/ BusStop
  \/ \E f \in Facades : ListenStart(f)
  \/ \E f \in Facades : ListenGet(f)
  \/ \E f \in Facades : ListenEmpty(f)
  \/ \E f \in Facades : SetCompletion(f)

SpecFan == Init /\ [][NextFan]_vars

\* construction, registration and listening, with the running-jobs report
\* as the emitter
NextReg ==
  \/ \E f \in Facades : Construct(f)
  \/ \E f \in Facades : RegisterCall(f)
  \/ \E f \in Facades : GenRegister(f)
  \/ \E f \in Facades : ListenStart(f)
  \/ \E f \in Facades : ListenGet(f)
  \/ \E f \in Facades : ListenEmpty(f)
  \/ \E f \in Facades : SetCompletion(f)
  \/ RunningJobs

SpecReg == Init /\ [][NextReg]_vars

\* C15: at any time there is no bus and none was started, or there is one
\* and it was started once; every constructed facade refers to it and is in
\* its registry, no facade is in the registry twice, and a step that emits n
\* events makes no inbox grow by more than n.
C15_OneBusNoDoubleRegistration ==
  /\ [](/\ IF generator THEN started = 1
                         ELSE started = 0 /\ instances = <<>>
        /\ \A f \in Facades : constructed[f] =>
              /\ fgen[f]
              /\ Cardinality({i \in DOMAIN instances : instances[i] = f}) = 1
        /\ \A i, j \in DOMAIN instances : i # j => instances[i] # instances[j])
  /\ [][\A f \in Facades :
          Len(inbox'[f]) <= Len(inbox[f]) + (nemit' - nemit)]_vars

\* both facades exist, register was called explicitly twice, one facade has
\* started a listen call and an event has reached it
C15_Witness ==
  /\ \A f \in Facades : constructed[f]
  /\ nregs = 2
  /\ \E f \in Facades : subscribed[f] = 1 /\ inbox[f] # <<>>
  /\ Len(instances) = 2

\* the heartbeat loop with time kept, a stop signal, and one listening
\* subscriber; a loop whose wait is over is scheduled in the end
NextHb ==
  \/ HbWake
  \/ HbEmit
  \/ HbCrash
  \/ BusStop
  \/ Tick
  \/ RunningJobs
  \/ \E f \in Facades : ListenGet(f)

SpecHb == InitJobs /\ [][NextHb]_vars /\ WF_vars(HbWake)

\* C16: once _complete is set while _run is in its wait, no time passes in
\* the wait (so the loop is through within HEARTBEAT_PERIOD of the signal),
\* the loop's next step ends it, no round is begun and no SERVER_HEARTBEAT
\* or HEARTBEAT event is emitted; and the loop does end.
C16_StopDuringSleep ==
  /\ [][complete /\ hbpc = "sleep" =>
          /\ hbpc' \in {"sleep", "stopped"}
          /\ rounds' = rounds
          /\ waited' = waited
          /\ nemit' # nemit =>
                \A i \in DOMAIN lastEmit' :
                  lastEmit'[i].kind \notin {HEARTBEAT, SERVER_HEARTBEAT}]_vars
  /\ (complete /\ hbpc = "sleep") ~> (hbpc = "stopped")

\* the signal was set part way through the first wait and the loop has ended
\* after its one round
C16_Witness ==
  /\ stoppedIn = "sleep"
  /\ hbpc = "stopped"
  /\ waited > 0 /\ waited < HEARTBEAT_PERIOD
  /\ rounds = 1

\* a listen step of f: its position changes, or the head of its inbox goes
ListenStep(f) ==
  \/ lpc'[f] # lpc[f]
  \/ inbox[f] # <<>> /\ inbox'[f] = Tail(inbox[f])

\* C17: a listen call whose pop finds the inbox empty goes on or returns, it
\* never ends in an exception; and the first step a listen call takes after
\* its completion event was set ends the call, having taken at most one
\* event off the inbox, whatever the inbox holds and whatever the bus adds
\* to it meanwhile.
C17_ListenStopsAfterOnePop ==
  [][\A f \in Facades :
       /\ lpc[f] = "wait" /\ inbox[f] = <<>> => lpc'[f] \in {"wait", "returned"}
       /\ lpc[f] = "wait" /\ completion[f] /\ ListenStep(f) =>
            /\ lpc'[f] \in {"returned", "raised"}
            /\ lpc'[f] = "raised" => inbox[f] # <<>>
            /\ Len(inbox'[f]) >= Len(inbox[f]) - 1]_vars

\* a listen call whose completion event was set has returned and left events
\* in the inbox
C17_Witness ==
  \E f \in Facades :
    /\ lpc[f] = "returned"
    /\ completion[f]
    /\ subscribed[f] = 0
    /\ inbox[f] # <<>>
    /\ hbpc = "sleep"

\* submission, the job greenlets and the heartbeat loop with no stop signal,
\* under gevent's scheduling: a greenlet that can run is run in the end. The
\* collaborator call of the first job submitted is left free never to return.
NextLive ==
  \/ \E f \in Facades, cmd \in SubmitCmds, args \in SubmitArgs :
       RunJob(f, LocalFqdn, cmd, args)
  \/ \E jid \in DOMAIN tasks : JobStart(jid)
  \/ \E jid \in DOMAIN tasks : JobFinish(jid)
  \/ HbLoop
  \/ HbEmit

SpecLive ==
  /\ InitJobs
  /\ [][NextLive]_vars
  /\ WF_vars(HbLoop)
  /\ WF_vars(HbEmit)
  /\ \A j \in 2..MaxJobs : WF_vars(JobStart(j)) /\ WF_vars(JobFinish(j))

VersionFollowsType ==
  fres.returned =>
    CASE fres.type \in ElectionEpochTypes ->
           /\ fres.version = fres.data.object.election_epoch
           /\ fres.version \in 1..MaxEpoch
      [] fres.type \in MapEpochTypes ->
           /\ fres.version = fres.data.object.epoch
           /\ fres.version \in 1..MaxEpoch
      [] fres.type \in {"config", "health"} ->
           /\ fres.version = Md5(fraw)
           /\ fres.data.content = JsonObject(fraw)
      [] fres.type = "pg_summary" ->
           /\ fres.version = Md5(Packb(fres.data.summary))
           /\ fres.data.summary = pg_summary(fraw)
           /\ fres.version # Md5(DumpText(fraw))

\* C21 as stated: the version of a returned object follows its type, and the
\* types of the enumeration that take a native epoch integer are four.
C21_FourEpochTypes ==
  /\ VersionFollowsType
  /\ fres.returned =>
       Cardinality(SYNC_TYPES \ {"config", "health", "pg_summary"}) = 4

\* C21: the version of a returned object follows its type: the five types
\* mon_status, quorum_status, mon_map, osd_map and mds_map take the epoch
\* integer of their own payload, config and health the digest of the raw
\* text, pg_summary the digest of the reduced summary and not of the raw
\* dump; and these are all the types of the enumeration.
C21_VersionByType ==
  /\ VersionFollowsType
  /\ fres.returned =>
       /\ Cardinality(ElectionEpochTypes \cup MapEpochTypes) = 5
       /\ SYNC_TYPES = ElectionEpochTypes \cup MapEpochTypes
                          \cup {"config", "health", "pg_summary"}
       /\ fres.type \in SYNC_TYPES

\* a mon_status object, the fifth of the epoch types, was returned with the
\* election epoch of its payload as version
C21_Witness ==
  /\ fres.returned
  /\ fres.type = "mon_status"
  /\ fres.version = epoch
  /\ fres.data.object.election_epoch = epoch

\* the queries of the call so far other than the per-entry metadata queries
RequiredQueries == SelectSeq(fLog, LAMBDA e : e.prefix # "osd metadata")

\* C23: a fetch that returned a record had status 0 from every command it
\* depends on: the status query, the command of its type and, for the osd
\* map, the tree, crush dump and crush map queries.
C23_NonzeroStatusFails ==
  fres.returned =>
    \A i \in DOMAIN RequiredQueries : RequiredQueries[i].ret = 0

\* the heartbeat loop with get_heartbeats() in full, on a node whose sockets
\* and clusters answer as they like in the first round and all answer in
\* the rounds after it
NextProbe ==
  \/ HbLoop
  \/ \E present \in IF rounds > 1 THEN {Sockets} ELSE SUBSET Sockets :
       \E so \in IF rounds > 1 THEN {[s \in Sockets |-> "ok"]}
                 ELSE [Sockets -> SocketReplies],
          quorate \in SUBSET Sockets :
         /\ ProbeInputs(present, so, quorate)
         /\ \E co \in IF rounds > 1
                       THEN {[f \in {FsidOf(s.cluster) : s \in Sockets} |-> "ok"]}
                       ELSE [{FsidOf(s.cluster) : s \in Sockets} -> ClusterReplies] :
              HbRound(present, so, quorate, co)
  \/ BusStop

SpecProbe == InitJobs /\ [][NextProbe]_vars

\* the sockets of the last round whose probe failed, and its clusters whose
\* query failed
FailedSockets == {s \in probe.present : probe.replies[s] # "ok"}
FailedClusters == {f \in DOMAIN probe.statuses : probe.statuses[f] # "ok"}

\* C22: a round in which the probe of a socket or the query of a cluster
\* failed still ends with its report emitted, holding every socket that
\* answered and every cluster asked whose query succeeded, and with the
\* loop waiting for its next round.
C22_FailureOnlyOmits ==
  probe.round > 0 /\ (FailedSockets # {} \/ FailedClusters # {}) =>
    /\ probe.raised = ""
    /\ hbpc \in {"sleep", "probe", "stopped"}
    /\ probe.services = probe.present \ FailedSockets
    /\ probe.clusters = (DOMAIN probe.statuses) \ FailedClusters

\* the clusters of the last round with a mon here that answered, whose rank
\* is in its quorum, and whose cluster_status succeeded
EligibleClusters ==
  {f \in DOMAIN probe.statuses :
     /\ probe.statuses[f] = "ok"
     /\ \E s \in probe.present :
          /\ FsidOf(s.cluster) = f
          /\ s.type = "mon"
          /\ probe.replies[s] = "ok"
          /\ s \in probe.quorate}

NextJobsFair ==
  \/ \E f \in Facades, cmd \in SubmitCmds, args \in SubmitArgs :
       RunJob(f, LocalFqdn, cmd, args)
  \/ \E jid \in DOMAIN tasks : JobStart(jid)
  \/ \E jid \in DOMAIN tasks : JobFinish(jid)
  \/ RunningJobs

SpecJobsFair ==
  /\ InitJobs
  /\ [][NextJobsFair]_vars
  /\ \A j \in 1..MaxJobs : WF_vars(JobStart(j)) /\ WF_vars(JobFinish(j))

\* C24: a job id that submit returned is in the job table exactly as long as
\* its greenlet has not ended, so the del of complete always finds its key;
\* the step that ends a job's greenlet emits one JOB event carrying the id,
\* command and arguments of the submission, a JOB event is emitted at no
\* other step, and every job in the table leaves it in the end.
C24_JobLifecycle ==
  /\ [](/\ jobs \subseteq Range(returned)
        /\ \A j \in Range(returned) : j \in jobs <=> j \in DOMAIN tasks)
  /\ [][\A j \in DOMAIN tasks :
          IF j \in DOMAIN tasks'
          THEN /\ tasks'[j].cmd = tasks[j].cmd
               /\ tasks'[j].args = tasks[j].args
          ELSE /\ j \in jobs /\ j \notin jobs'
               /\ nemit' = nemit + 1
               /\ Len(lastEmit') = 1
               /\ lastEmit'[1].kind = JOB
               /\ lastEmit'[1].jid = j
               /\ lastEmit'[1].fun = tasks[j].cmd
               /\ lastEmit'[1].fun_args = tasks[j].args]_vars
  /\ [][nemit' > nemit =>
          \A i \in 1..Len(lastEmit') :
            lastEmit'[i].kind = JOB =>
              DOMAIN tasks \ DOMAIN tasks' = {lastEmit'[i].jid}]_vars
  /\ \A j \in 1..MaxJobs : (j \in jobs) ~> (j \notin jobs)

\* the second job submitted has ended by an exception and its JOB event was
\* the last thing emitted, while the first job is still in the table
C24_Witness ==
  /\ Len(returned) = 2
  /\ returned[1] \in jobs
  /\ returned[2] \notin jobs
  /\ returned[2] \notin DOMAIN tasks
  /\ Len(lastEmit) = 1
  /\ lastEmit[1].kind = JOB
  /\ lastEmit[1].jid = returned[2]
  /\ ~lastEmit[1].success

\* both facades are in a listen call whose callbacks record their calls: r1
\* was given all four callbacks, r2 the heartbeat callback alone
InitListen ==
  /\ generator = TRUE
  /\ started = 1
  /\ instances = <<"r1", "r2">>
  /\ fgen = [f \in Facades |-> TRUE]
  /\ hbpc = "start"
  /\ complete = FALSE
  /\ rounds = 0
  /\ waited = 0
  /\ stoppedIn = ""
  /\ probe = NoProbe
  /\ jobs = {}
  /\ tasks = <<>>
  /\ nuuid = 0
  /\ lastExc = ""
  /\ nreports = 0
  /\ inbox = [f \in Facades |-> <<>>]
  /\ lastEmit = <<>>
  /\ nemit = 0
  /\ constructed = [f \in Facades |-> TRUE]
  /\ subscribed = [f \in Facades |-> 1]
  /\ lpc = [f \in Facades |-> "wait"]
  /\ handlers = [f \in Facades |->
                   IF f = "r1" THEN {JOB, HEARTBEAT, SERVER_HEARTBEAT,
                                     RUNNING_JOBS}
                   ELSE {HEARTBEAT}]
  /\ completion = [f \in Facades |-> FALSE]
  /\ before = [f \in Facades |-> 0]
  /\ recording = TRUE
  /\ calls = [f \in Facades |-> <<>>]
  /\ nlisten = [f \in Facades |-> 1]
  /\ leftover = [f \in Facades |-> <<>>]
  /\ returned = <<>>
  /\ lastCall = [fqdn |-> "", outcome |-> "none", jid |-> 0]
  /\ syncs = <<>>
  /\ nregs = 0
  /\ BatchIdle
  /\ FetchIdle

\* the bus emits events of every kind, in any order, while the two listen
\* loops take them off their queues: one job, one report of the job table
\* and one heartbeat round, on a node whose sockets and clusters all answer
\* with any of its mons in quorum
NextDispatch ==
  \/ \E cmd \in SubmitCmds, args \in SubmitArgs :
       returned = <<>> /\ RunJob("r1", LocalFqdn, cmd, args)
  \/ \E jid \in DOMAIN tasks : JobStart(jid)
  \/ \E jid \in DOMAIN tasks : JobFinish(jid)
  \/ nreports = 0 /\ RunningJobs
  \/ hbpc = "start" /\ HbLoop
  \/ \E quorate \in SUBSET {s \in Sockets : s.type = "mon"} :
       HbRound(Sockets, [s \in Sockets |-> "ok"], quorate,
               [c \in {FsidOf(s.cluster) : s \in Sockets} |-> "ok"])
  \/ \E f \in Facades : ListenGet(f)

SpecDispatch == InitListen /\ [][NextDispatch]_vars

\* the events f's listen calls have taken off its queue, in order
Taken(f) == [i \in DOMAIN calls[f] |-> calls[f][i].ev]

\* C26: every step that emits appends the same events, in the order of
\* emission, at the tail of the queue of every subscriber with interest, a
\* listen loop takes the oldest event of its queue and dispatches that one,
\* and nothing else changes a queue; so the events a loop has dispatched
\* followed by those still queued are the events enqueued, in emission order,
\* and two subscribers listening throughout hold the same sequence.
C26_EmissionOrderKept ==
  /\ [][\A f \in Facades :
          IF Len(calls'[f]) > Len(calls[f])
          THEN /\ inbox[f] # <<>>
               /\ calls'[f][Len(calls'[f])].ev = Head(inbox[f])
               /\ inbox'[f] = Tail(inbox[f])
               /\ Len(calls'[f]) = Len(calls[f]) + 1
          ELSE inbox'[f] = inbox[f] \o (IF nemit' > nemit /\ subscribed[f] > 0
                                        THEN lastEmit' ELSE <<>>)]_vars
  /\ [](\A f, g \in Facades :
          (\A h \in {f, g} : lpc[h] = "wait" /\ nlisten[h] = 1) =>
            Taken(f) \o inbox[f] = Taken(g) \o inbox[g])

\* both loops have dispatched a JOB event and then a HEARTBEAT event, and
\* one of them still holds an event the other has already dispatched
C26_Witness ==
  /\ \A f \in Facades :
       /\ Len(calls[f]) >= 2
       /\ calls[f][1].ev.kind = JOB
       /\ \E i \in 2..Len(calls[f]) : calls[f][i].ev.kind = HEARTBEAT
  /\ Len(calls["r1"]) > Len(calls["r2"])
  /\ inbox["r2"] # <<>>

NextRelisten ==
  \/ nreports = 0 /\ RunningJobs
  \/ hbpc = "start" /\ HbLoop
  \/ HbEmit
  \/ nlisten["r1"] < MaxListens /\ ListenStart("r1")
  \/ ListenGet("r1")
  \/ ListenEmpty("r1")
  \/ SetCompletion("r1")

SpecRelisten == InitListen /\ [][NextRelisten]_vars

\* the events f's current listen call has taken off the queue
TakenNow(f) == SelectSeq(calls[f], LAMBDA c : c.listen = nlisten[f])

\* C28: after a listen call has returned, and while the interest count is 0,
\* the queue holds exactly what the call left in it; the next listen call
\* begins on that queue unchanged and takes the events left, in their order,
\* before any other.
C28_LeftoverKept ==
  /\ [](\A f \in Facades :
          lpc[f] = "returned" /\ subscribed[f] = 0 => inbox[f] = leftover[f])
  /\ [][\A f \in Facades :
          /\ nlisten'[f] > nlisten[f] => inbox'[f] = inbox[f]
          /\ Len(calls'[f]) > Len(calls[f]) /\ nlisten[f] >= 2
               /\ Len(TakenNow(f)) < Len(leftover[f]) =>
               calls'[f][Len(calls'[f])].ev = leftover[f][Len(TakenNow(f)) + 1]]_vars

\* the second listen call of a facade has dispatched the event its first
\* call left in the queue and then an event emitted after it began
C28_Witness ==
  \E f \in Facades :
    /\ nlisten[f] = 2
    /\ lpc[f] = "wait"
    /\ Len(leftover[f]) = 1
    /\ Len(TakenNow(f)) = 2
    /\ TakenNow(f)[1].ev = leftover[f][1]
    /\ TakenNow(f)[2].ev.kind = RUNNING_JOBS

\* the facade's calls alone: run_job and run_job_sync
NextCalls ==
  \/ \E f \in Facades : Construct(f)
  \/ \E f \in Facades, fqdn \in Fqdns, cmd \in SubmitCmds, args \in SubmitArgs :
       RunJob(f, fqdn, cmd, args)
  \/ \E f \in Facades, cmd \in SyncCmds, args \in SyncArgs :
       RunJobSync(f, cmd, args)

SpecCalls == Init /\ [][NextCalls]_vars

\* one rados_commands call against a cluster that answers as it likes
NextBatch ==
  \/ \E cmds \in Batches(MaxBatch), connected \in BOOLEAN :
       BatchCall(cmds, connected)
  \/ BatchCompileFails
  \/ \E outbuf \in Outbufs : BatchSubmit(0, outbuf, "")
  \/ \E outs \in ErrTexts : BatchSubmit(1, "", outs)
  \/ \E ok \in BOOLEAN : BatchStatus(ok)
  \/ ClusterAdvance

SpecBatch == Init /\ [][NextBatch]_vars

\* one run_job call, get_cluster_object step by step, against a cluster that
\* answers as it likes and whose maps may change meanwhile
NextFetch ==
  \/ \E cmd \in RunCmds, sync_type \in SyncTypeArgs, connected \in BOOLEAN :
       RunJobCall(cmd, sync_type, connected)
  \/ \E outcome \in StatsOutcomes : StatsRun(outcome)
  \/ \E ret \in {0, 1}, decodes \in BOOLEAN : FetchStatus(ret, decodes)
  \/ \E ok \in BOOLEAN, raw \in RawTexts : FetchConfig(ok, raw)
  \/ \E ok \in BOOLEAN, osds \in OsdLists : FetchEpochObject(ok, osds)
  \/ \E ok \in BOOLEAN, pgs \in PgLists : FetchPgSummary(ok, pgs)
  \/ \E ok \in BOOLEAN, raw \in RawTexts : FetchHealth(ok, raw)
  \/ \E ok \in BOOLEAN : FetchTree(ok)
  \/ \E ok \in BOOLEAN : FetchCrushDump(ok)
  \/ \E ok \in BOOLEAN : FetchGetCrushmap(ok)
  \/ \E ok \in BOOLEAN : FetchDecompile(ok)
  \/ \E ret \in {0, 1}, garbled \in BOOLEAN : FetchMetadata(ret, garbled)
  \/ ClusterAdvance

SpecFetch == Init /\ [][NextFetch]_vars

\* --------------------------------------------- get_cluster_object: claims
\* the per-entry metadata queries issued so far, in order
MetadataQueries == SelectSeq(fLog, LAMBDA e : e.prefix = "osd metadata")

\* did the metadata query for this osd id return status 0
MetadataOk(osd_id) ==
  \E i \in DOMAIN MetadataQueries :
    MetadataQueries[i].id = osd_id /\ MetadataQueries[i].ret = 0

\* C12: an osd_map fetch whose per-entry metadata queries fail for any set of
\* entries still returns, with no exception: one query was made for each
\* entry of data['osds'], in order, and data['osd_metadata'] holds exactly
\* one item for each entry whose query returned status 0, in the order of
\* data['osds'], and none for the others; and a metadata query that returns
\* a failure status never ends the call.
C12_MetadataFailuresSwallowed ==
  /\ [](fpc = "returned" /\ ftype = "osd_map" =>
          /\ fraise = ""
          /\ fres.returned
          /\ [i \in DOMAIN MetadataQueries |-> MetadataQueries[i].id]
               = fres.data.osds
          /\ [i \in DOMAIN fres.data.osd_metadata |->
                fres.data.osd_metadata[i].osd]
               = SelectSeq(fres.data.osds, MetadataOk))
  /\ [][fpc = "meta" /\ fLog' # fLog /\ fLog'[Len(fLog')].ret # 0
          => fpc' \in {"meta", "returned"}]_vars

\* a fetch has returned with an item for one of two entries: the query for
\* the first entry failed and the query for the second succeeded
C12_Witness ==
  /\ fpc = "returned"
  /\ ftype = "osd_map"
  /\ Len(fres.data.osds) = 2
  /\ Len(fres.data.osd_metadata) = 1
  /\ ~MetadataOk(fres.data.osds[1])
  /\ fres.data.osd_metadata[1].osd = fres.data.osds[2]

\* C13: in an osd_map fetch that has returned, every dependent query other
\* than 'osd crush dump' ('osd tree', 'osd getcrushmap' and each 'osd
\* metadata') named the epoch of the base map, and every part of the result
\* other than the crush dump reflects the record's version.
C13_DependentQueriesAtBaseEpoch ==
  fpc = "returned" /\ ftype = "osd_map" =>
    /\ \A i \in DOMAIN fLog :
         fLog[i].prefix \in {"osd tree", "osd getcrushmap", "osd metadata"}
           => fLog[i].epochArg = fres.version
    /\ fres.data.tree = fres.version
    /\ fres.data.crush_map_text = fres.version
    /\ \A i \in DOMAIN fres.data.osd_metadata :
         fres.data.osd_metadata[i].seen = fres.version

\* C14: a get_cluster_object call for a sync_type outside SYNC_TYPES, and a
\* run_job call for a command name it does not dispatch on, end in an
\* exception with no session opened or tried, no query issued and no
\* subprocess started; the unknown command is handed to no function.
C14_CallerErrorsFailFast ==
  /\ jcall.target = "get_cluster_object" /\ ftype \notin SYNC_TYPES =>
       /\ fpc = "raised"
       /\ fraise = "AssertionError"
       /\ fsession = "none" /\ session = "none"
       /\ fLog = <<>> /\ sessLog = <<>>
       /\ nproc = 0
  /\ jcall.cmd # "" /\ jcall.cmd \notin KnownCmds =>
       /\ fpc = "raised"
       /\ fraise # ""
       /\ jcall.target = ""
       /\ fsession = "none" /\ session = "none"
       /\ fLog = <<>> /\ sessLog = <<>>
       /\ nproc = 0

\* a fetch was asked for a sync_type that is not in SYNC_TYPES and has ended
C14_Witness ==
  /\ jcall.cmd = "ceph.get_cluster_object"
  /\ ftype = "crush_map"
  /\ fpc = "raised"

\* C19: the version of a returned config, health or pg_summary object is the
\* one every payload with the same content gets, however its keys are
\* ordered, and one no payload with another content gets.
C19_DigestFollowsContent ==
  /\ fpc = "returned" /\ ftype \in {"config", "health"} =>
       \A raw \in RawTexts :
         (JsonObject(raw) = fres.data.content) <=> (Md5(raw) = fres.version)
  /\ fpc = "returned" /\ ftype = "pg_summary" =>
       \A pgs \in PgLists :
         (pg_summary(pgs) = fres.data.summary)
           <=> (Md5(Packb(pg_summary(pgs))) = fres.version)

\* the integer before the dot of each pg id used
PrefixOf(pgid) ==
  CASE pgid = <<"1", ".", "0">> -> 1
    [] pgid = <<"1", ".", "1">> -> 1
    [] pgid = <<"1", "2", ".", "0">> -> 12

\* the (record, position) pairs where member m is in the acting set of a
\* record with state s
Occurrences(pgs, m, s) ==
  {ij \in (DOMAIN pgs) \X (UNION {DOMAIN a : a \in Actings}) :
     /\ pgs[ij[1]].state = s
     /\ ij[2] \in DOMAIN pgs[ij[1]].acting
     /\ pgs[ij[1]].acting[ij[2]] = m}

\* C20: for the list of pg records of a returned pg_summary fetch: 'all'
\* maps each state that occurs to the number of records with it, 'by_pool'
\* maps each pool g that occurs and each state s to the number of records
\* with state s whose pgid has integer prefix g, 'by_osd' maps each osd m
\* and state s to the number of occurrences of m in the acting lists of the
\* records with state s; and every reordering of the list gives the same.
C20_PgSummaryCounts ==
  fpc = "returned" /\ ftype = "pg_summary" =>
    LET pgs == fraw
        r == fres.data.summary
        N(S) == Cardinality(S)
        WithState(s) == {i \in DOMAIN pgs : pgs[i].state = s}
        InPool(g, s) == {i \in WithState(s) : PrefixOf(pgs[i].pgid) = g}
        Pools == {PrefixOf(pgs[i].pgid) : i \in DOMAIN pgs}
        Osds == UNION {Range(pgs[i].acting) : i \in DOMAIN pgs}
    IN /\ r.all = [s \in {s \in PgStates : WithState(s) # {}} |->
                     N(WithState(s))]
       /\ r.by_pool = [g \in Pools |->
                         [s \in {s \in PgStates : InPool(g, s) # {}} |->
                            N(InPool(g, s))]]
       /\ r.by_osd = [m \in Osds |->
                        [s \in {s \in PgStates : Occurrences(pgs, m, s) # {}} |->
                           N(Occurrences(pgs, m, s))]]
       /\ \A p \in Permutations(DOMAIN pgs) :
            pg_summary([i \in DOMAIN pgs |-> pgs[p[i]]]) = r

\* a summary was returned for two records in different pools with the same
\* state, one of them with an osd twice in its acting list
C20_Witness ==
  /\ fpc = "returned"
  /\ ftype = "pg_summary"
  /\ Len(fraw) = 2
  /\ fraw[1].state = fraw[2].state
  /\ PrefixOf(fraw[1].pgid) # PrefixOf(fraw[2].pgid)
  /\ fraw[1].acting = <<2, 2>>
  /\ fres.data.summary.by_osd[2][fraw[1].state] >= 2

\* ------------------------------------------------- rados_commands: claims
\* the batch commands submitted so far, in the order the cluster saw them
Submitted == SelectSeq(sessLog, LAMBDA e : e.kind = "command")

\* the positions in sessLog of the entries of one kind
Positions(kind) == {i \in DOMAIN sessLog : sessLog[i].kind = kind}

\* C9: the commands of a batch are submitted in the given order, and none is
\* submitted after one that returned a nonzero status; a returned result whose
\* batch had a command k with nonzero status holds the decoded outputs of the
\* commands before k in order, is flagged as an error and carries k's error
\* text; a returned result whose batch had none has seen every command
\* submitted, is not flagged and holds one entry per command.
C9_BatchStopsAtFirstFailure ==
  LET n == Len(Submitted) IN
    /\ n <= Len(commands)
    /\ \A i \in 1..n : /\ Submitted[i].index = i
                       /\ Submitted[i].prefix = commands[i]
    /\ \A i \in 1..(n - 1) : Submitted[i].ret = 0
    /\ bpc = "returned" =>
         IF n > 0 /\ Submitted[n].ret # 0
         THEN /\ bres.error
              /\ bres.error_status = Submitted[n].outs
              /\ bres.results = [i \in 1..(n - 1) |-> ResultOf(Submitted[i].outbuf)]
         ELSE /\ n = Len(commands)
              /\ ~bres.error
              /\ bres.error_status = ""
              /\ bres.results = [i \in 1..n |-> ResultOf(Submitted[i].outbuf)]

\* C11: when crushtool fails on the text of an 'osd setcrushmap' command, the
\* call ends there: that command has not been submitted, only the commands
\* before it have, no cluster_status query is made, and nothing is issued on
\* the session afterwards.
C11_CompileFailureAborts ==
  /\ [](braise = "RuntimeError" =>
          /\ bpc = "raised"
          /\ commands[bi] = "osd setcrushmap"
          /\ Len(Submitted) = bi - 1
          /\ \A i \in DOMAIN sessLog : /\ sessLog[i].kind = "command"
                                       /\ sessLog[i].index < bi
          /\ session = "shutdown")
  /\ [][braise = "RuntimeError" => sessLog' = sessLog]_vars

\* crushtool failed on the first command of a batch of two: the call has
\* ended with nothing submitted, the second command included
C11_Witness ==
  /\ braise = "RuntimeError"
  /\ Len(commands) = 2
  /\ bi = 1
  /\ sessLog = <<>>

\* a batch whose second command failed after its first succeeded has returned
C9_Witness ==
  /\ bpc = "returned"
  /\ bres.error
  /\ Len(bres.results) = 1
  /\ Len(Submitted) = 2
  /\ Len(commands) = 2

\* C10: a returned result, error or not, carries the versions read by a
\* 'status' query made after every command the batch submitted, so they are
\* no older than the last submitted command's effect; and at no time has a
\* batch command been submitted after a cluster_status query.
C10_VersionsAfterLastCommand ==
  /\ \A c \in Positions("command"), q \in Positions("status") : c < q
  /\ bpc = "returned" =>
       /\ bres.returned
       /\ \E q \in Positions("status") :
            /\ sessLog[q].prefix = "status"
            /\ sessLog[q].ret = 0
            /\ bres.versions = sessLog[q].epoch
            /\ \A c \in Positions("command") : sessLog[c].epoch <= bres.versions

\* a batch that stopped at a failing command has returned versions that
\* include the effect of the command that succeeded before it
C10_Witness ==
  /\ bpc = "returned"
  /\ bres.error
  /\ bres.results # <<>>
  /\ bres.versions >= 2
  /\ \E c \in Positions("command") : sessLog[c].ret # 0

\* ================================================================ claims
\* C1: every job id MonRemote.run_job returns differs from every id an
\* earlier submission returned and from every id in the job table at the
\* time of the call.
C1_FreshJobId ==
  [][Len(returned') > Len(returned) =>
       LET jid == returned'[Len(returned')]
       IN /\ jid \notin Range(returned)
          /\ jid \notin jobs
          /\ lastCall'.jid = jid]_vars

\* two submissions have returned and the first job is already out of the table
C1_Witness ==
  /\ Len(returned) >= 2
  /\ returned[1] \notin jobs
  /\ returned[2] \in jobs

\* C2: completion and removal are atomic: a job whose JOB event sits in any
\* subscriber's inbox is not in the job table, and no RUNNING_JOBS report that
\* follows a JOB event (in an inbox, or emitted after the job's greenlet
\* ended) lists that job.
C2_CompletionAtomic ==
  /\ [](\A f \in Facades : \A i \in 1..Len(inbox[f]) :
          inbox[f][i].kind = JOB =>
            /\ inbox[f][i].jid \notin jobs
            /\ \A k \in (i+1)..Len(inbox[f]) :
                 inbox[f][k].kind = RUNNING_JOBS =>
                   inbox[f][i].jid \notin inbox[f][k].jids)
  /\ [][nemit' > nemit =>
          \A i \in 1..Len(lastEmit') :
            lastEmit'[i].kind = RUNNING_JOBS =>
              lastEmit'[i].jids \cap (Range(returned) \ DOMAIN tasks) = {}]_vars

\* a subscriber holds a JOB event followed by a report that lists another job
C2_Witness ==
  \E f \in Facades : \E i, k \in 1..Len(inbox[f]) :
    /\ i < k
    /\ inbox[f][i].kind = JOB
    /\ inbox[f][k].kind = RUNNING_JOBS
    /\ inbox[f][k].jids # {}

\* C3: no step adds an event to the inbox of a subscriber whose interest
\* count is 0, whatever the bus emits in that step.
C3_NoDeliveryWithoutInterest ==
  [][\A f \in Facades : subscribed[f] = 0 => inbox'[f] = inbox[f]]_vars

\* the bus has emitted to a listening facade while another constructed facade
\* with interest 0 got nothing
C3_Witness ==
  \E f, g \in Facades :
    /\ constructed[f] /\ subscribed[f] = 0 /\ inbox[f] = <<>>
    /\ lpc[f] = "idle"
    /\ inbox[g] # <<>>

\* C4: a step that emits appends exactly the emitted events, once each and in
\* order, to the inbox of every subscriber with interest count > 0, whatever
\* the inbox already holds; no emitting action is ever disabled by an inbox.
C4_DeliveryToInterested ==
  [][nemit' > nemit =>
       /\ Len(lastEmit') = nemit' - nemit
       /\ \A f \in Facades :
            subscribed[f] > 0 => inbox'[f] = inbox[f] \o lastEmit']_vars

\* both facades are listening and each holds several events
C4_Witness ==
  \A f \in Facades : subscribed[f] > 0 /\ Len(inbox[f]) >= 2

\* C5: when a listen call has exited, by return or by a callback's error,
\* the facade's interest count equals its value before the call.
C5_InterestScoped ==
  \A f \in Facades :
    lpc[f] \in {"returned", "raised"} => subscribed[f] = before[f]

\* C6: when the dispatched call of a job raises (an unknown command name
\* included), the job greenlet ends by completing the job: the job leaves the
\* table, one JOB event is emitted with success false and the formatted error
\* as its return value, and neither the heartbeat greenlet nor any other job
\* is touched.
C6_JobFailureReported ==
  [][\A j \in DOMAIN tasks \ DOMAIN tasks' :
       /\ tasks[j].cmd \notin KnownCmds => lastExc' # ""
       /\ lastExc' # "" =>
            /\ j \notin jobs'
            /\ Len(lastEmit') = 1 /\ nemit' = nemit + 1
            /\ lastEmit'[1].kind = JOB
            /\ lastEmit'[1].jid = j
            /\ lastEmit'[1].success = FALSE
            /\ lastEmit'[1].return = "Traceback: " \o lastExc'
            /\ lastEmit'[1].fun = tasks[j].cmd
            /\ hbpc' = hbpc
            /\ \A k \in DOMAIN tasks' : tasks'[k] = tasks[k]]_vars

\* a job with an unknown command name has ended and a listening subscriber
\* holds its failure event
C6_Witness ==
  /\ lastExc = "TypeError"
  /\ \E f \in Facades : \E i \in 1..Len(inbox[f]) :
       /\ inbox[f][i] = lastEmit[1]
       /\ inbox[f][i].kind = JOB
       /\ ~inbox[f][i].success

\* C7 as stated: run_job_sync never raises; a failing dispatched call gives
\* the caller a result.
C7_SyncNeverRaises ==
  \A i \in 1..Len(syncs) : syncs[i].outcome = "return"

\* C7 amended: run_job_sync returns the dispatched call's value when it
\* succeeds, and when it fails (an unknown command name included) the caller
\* gets no result but a raised Unavailable carrying the command name; no
\* other error reaches the caller.
C7_SyncRaisesUnavailable ==
  \A i \in 1..Len(syncs) :
    /\ syncs[i].cmd \notin KnownCmds => syncs[i].exc # ""
    /\ syncs[i].exc = "" =>
         /\ syncs[i].outcome = "return"
         /\ syncs[i].value = "result of " \o syncs[i].cmd \o " " \o syncs[i].args
    /\ syncs[i].exc # "" =>
         /\ syncs[i].outcome = "raise"
         /\ syncs[i].raised = "Unavailable"
         /\ syncs[i].arg = syncs[i].cmd
         /\ syncs[i].value = ""

\* one synchronous call failed on a known command, one on an unknown one
C7_Witness ==
  \E i, k \in 1..Len(syncs) :
    /\ syncs[i].cmd \in KnownCmds /\ syncs[i].outcome = "raise"
    /\ syncs[k].cmd \notin KnownCmds /\ syncs[k].outcome = "raise"

\* C8: a submission aimed at another agent raises Unavailable and changes
\* nothing: no uuid is drawn, the job table and the greenlets are as before,
\* nothing is emitted; and every greenlet belongs to an id some call returned.
C8_UnreachableChangesNothing ==
  /\ [][(lastCall' # lastCall /\ lastCall'.fqdn # LocalFqdn) =>
          /\ lastCall'.outcome = "Unavailable"
          /\ UNCHANGED <<jobs, tasks, nuuid, returned, emitVars>>]_vars
  /\ [](DOMAIN tasks \subseteq Range(returned) /\ jobs \subseteq Range(returned))

\* a submission to another agent was refused after a local one was accepted
C8_Witness ==
  /\ lastCall.outcome = "Unavailable"
  /\ Len(returned) >= 1
  /\ jobs # {}

\* ------------------------------------------------ ClusterHandle: sessions
\* the callers of ClusterHandle one at a time: a rados_commands call, a
\* run_job call (get_cluster_object, cluster_stats, pool_stats) or a round of
\* get_heartbeats, each against a cluster that answers as it likes
NoCall == bpc = "idle" /\ fpc = "idle" /\ hbpc = "start"

\* replies to get_cluster_object's queries, one of each length
SessOsds == {<<>>, <<0>>}
SessPgs == {<<>>, <<[pgid |-> <<"1", ".", "0">>, state |-> "down",
                     acting |-> <<1>>]>>}
SessRaw == {<< <<"a", 1>>, <<"b", 2>> >>}

NextSess ==
  \/ /\ NoCall
     /\ \E cmds \in Batches(MaxBatch), connected \in BOOLEAN :
          BatchCall(cmds, connected)
  \/ BatchCompileFails
  \/ \E outbuf \in Outbufs : BatchSubmit(0, outbuf, "")
  \/ \E outs \in ErrTexts : BatchSubmit(1, "", outs)
  \/ \E ok \in BOOLEAN : BatchStatus(ok)
  \/ /\ NoCall
     /\ \E cmd \in RunCmds, sync_type \in SyncTypeArgs, connected \in BOOLEAN :
          RunJobCall(cmd, sync_type, connected)
  \/ \E outcome \in StatsOutcomes : StatsRun(outcome)
  \/ \E ret \in {0, 1}, decodes \in BOOLEAN : FetchStatus(ret, decodes)
  \/ \E ok \in BOOLEAN, raw \in SessRaw : FetchConfig(ok, raw)
  \/ \E ok \in BOOLEAN, osds \in SessOsds : FetchEpochObject(ok, osds)
  \/ \E ok \in BOOLEAN, pgs \in SessPgs : FetchPgSummary(ok, pgs)
  \/ \E ok \in BOOLEAN, raw \in SessRaw : FetchHealth(ok, raw)
  \/ \E ok \in BOOLEAN : FetchTree(ok)
  \/ \E ok \in BOOLEAN : FetchCrushDump(ok)
  \/ \E ok \in BOOLEAN : FetchGetCrushmap(ok)
  \/ \E ok \in BOOLEAN : FetchDecompile(ok)
  \/ \E ret \in {0, 1}, garbled \in BOOLEAN : FetchMetadata(ret, garbled)
  \/ NoCall /\ HbLoop
  \/ \E present \in SUBSET Sockets :
       \E so \in [Sockets -> SocketReplies], quorate \in SUBSET Sockets :
         /\ ProbeInputs(present, so, quorate)
         /\ \E co \in [{FsidOf(s.cluster) : s \in Sockets} -> ClusterReplies] :
              HbRound(present, so, quorate, co)

SpecSess == InitJobs /\ [][NextSess]_vars

\* the positions in a round's log where op was done on the session of fsid
OpsAt(log, fsid, op) == {i \in DOMAIN log : log[i].fsid = fsid /\ log[i].op = op}

\* the clusters a round of get_heartbeats connected to
Connected(log) == {log[i].fsid : i \in {k \in DOMAIN log : log[k].op = "connect"}}

\* C29: no operation leaks a session. Once rados_commands, a run_job call
\* (get_cluster_object, cluster_stats, pool_stats) or a round of
\* get_heartbeats has ended, by return or by exception, no session it
\* connected is still open; a session is shut once and stays shut; a query is
\* issued only on an open session; and in a heartbeat round each cluster
\* connected has one connect, then its status queries, then one shutdown.
C29_NoSessionLeak ==
  /\ [](/\ bpc \in {"returned", "raised"} => session \in {"none", "shutdown"}
        /\ fpc \in {"returned", "raised", "done"} =>
             fsession \in {"none", "failed", "shutdown"}
        /\ jcall.target \in {"get_cluster_object", "cluster_stats", "pool_stats"}
             /\ fpc \in {"returned", "done"} => fsession = "shutdown"
        /\ bpc = "returned" => session = "shutdown"
        /\ \A fsid \in Connected(probe.log) :
             /\ Cardinality(OpsAt(probe.log, fsid, "connect")) = 1
             /\ Cardinality(OpsAt(probe.log, fsid, "shutdown")) = 1
             /\ OpsAt(probe.log, fsid, "connect failed") = {}
             /\ \A i \in OpsAt(probe.log, fsid, "connect"),
                   j \in OpsAt(probe.log, fsid, "shutdown"),
                   k \in OpsAt(probe.log, fsid, "cluster_status") :
                  i < k /\ k < j
        /\ \A i \in DOMAIN probe.log :
             probe.log[i].op \in {"cluster_status", "shutdown"} =>
               probe.log[i].fsid \in Connected(probe.log))
  /\ [][/\ session = "shutdown" => session' = "shutdown"
        /\ fsession = "shutdown" => fsession' = "shutdown"
        /\ session' = "shutdown" /\ session # "shutdown" => session = "open"
        /\ fsession' = "shutdown" /\ fsession # "shutdown" => fsession = "open"
        /\ sessLog' # sessLog => session = "open"
        /\ fLog' # fLog => fsession = "open"]_vars

\* a get_cluster_object call connected, issued at least one query and ended
\* in an exception, with its session shut
C29_Witness ==
  /\ jcall.target = "get_cluster_object"
  /\ fpc = "raised"
  /\ Len(fLog) >= 1
  /\ fsession = "shutdown"

====
